---- MODULE Spec2Model ----
(***************************************************************************)
(* Model of servicemaker (src/src/main.rs): the packaging pipeline that    *)
(* classifies a project, stages it into a workspace, renders a build file, *)
(* drives docker (build, push, snapshot extraction) and helm (lint,        *)
(* package).  The file system is a function from paths (sequences of       *)
(* names) to entries; main() is cut into one action per fallible step.     *)
(***************************************************************************)
EXTENDS Integers, Sequences, FiniteSets, TLC

VARIABLES fs, args, pc, project_type, project_dir, temp_dir, dirCreated,
          log, container, service_name, version, err, exit_code,
          err_args, input, out, zipper_arg

vars == <<fs, args, pc, project_type, project_dir, temp_dir, dirCreated,
          log, container, service_name, version, err, exit_code,
          err_args, input, out, zipper_arg>>

\* Option<T>::None
NONE == "<none>"

----------------------------------------------------------------------------
\* Bounds of the model

\* highest non-zero exit status an external command returns in the model
MaxExit == 1
\* highest exit code the snapshot container reports in the model
MaxContainerExit == 1

ExitCodes == 0..MaxExit
ContainerExitCodes == 0..MaxContainerExit

----------------------------------------------------------------------------
\* File system: paths are sequences of names, entries are records

DirEntry == [kind |-> "dir", content |-> <<>>, mode |-> 493]
FileEntry(content, mode) == [kind |-> "file", content |-> content, mode |-> mode]

\* mode of a newly created file (0o644) and of an executable script (0o755)
DefaultMode == 420
ExecMode == 493

IsPrefix(p, q) == Len(p) <= Len(q) /\ SubSeq(q, 1, Len(p)) = p

Exists(f, p) == p \in DOMAIN f
IsDir(f, p) == Exists(f, p) /\ f[p].kind = "dir"
IsFile(f, p) == Exists(f, p) /\ f[p].kind = "file"

Join(p, n) == Append(p, n)
FileName(p) == p[Len(p)]

\* fs::remove_dir_all
RemoveDirAll(f, p) == [q \in {r \in DOMAIN f : ~IsPrefix(p, r)} |-> f[q]]

\* fs::create_dir_all: the directory and every missing ancestor
CreateDirAll(f, p) ==
    LET missing == {SubSeq(p, 1, i) : i \in 1..Len(p)} \ DOMAIN f
    IN [q \in missing |-> DirEntry] @@ f

\* fs::write: creates the file or truncates it, keeping an existing mode
WriteFile(f, p, content) ==
    LET m == IF IsFile(f, p) THEN f[p].mode ELSE DefaultMode
    IN (p :> FileEntry(content, m)) @@ f

\* fs::set_permissions
SetMode(f, p, m) == [f EXCEPT ![p].mode = m]

\* fs::copy: contents and permission bits
CopyFile(f, src, dst) == (dst :> FileEntry(f[src].content, f[src].mode)) @@ f

\* fs::read_dir: the names of the entries of a directory
ReadDir(f, p) == {q[Len(p) + 1] : q \in {r \in DOMAIN f : Len(r) = Len(p) + 1 /\ IsPrefix(p, r)}}

----------------------------------------------------------------------------
\* copy_dir_recursive

\* variant: only the virtual environment is skipped
Excluded_VenvOnly == {".venv"}
\* names skipped by copy_dir_recursive
Excluded == {".venv", "node_modules"}

RECURSIVE CopyDirRecursive(_, _, _)
RECURSIVE CopyEntries(_, _, _, _)

\* the loop over the entries of src, one entry per unfolding
CopyEntries(f, src, dst, names) ==
    IF names = {} THEN f
    ELSE LET file_name == CHOOSE n \in names : TRUE
             path == Join(src, file_name)
             dest_path == Join(dst, file_name)
             f2 == IF file_name \in Excluded THEN f
                   ELSE IF IsDir(f, path) THEN CopyDirRecursive(f, path, dest_path)
                   ELSE CopyFile(f, path, dest_path)
         IN CopyEntries(f2, src, dst, names \ {file_name})

CopyDirRecursive(f, src, dst) ==
    LET f1 == IF ~Exists(f, dst) THEN CreateDirAll(f, dst) ELSE f
    IN CopyEntries(f1, src, dst, ReadDir(f1, src))

----------------------------------------------------------------------------
\* Manifests.  A document is held as the sequence of its lexical items, three
\* per field: key, type of the value, value.

\* the fields of a well-formed document; ok is FALSE when it does not parse
ParseDoc(content) ==
    IF Len(content) % 3 # 0 THEN [ok |-> FALSE, fields |-> <<>>]
    ELSE [ok |-> TRUE,
          fields |-> [i \in 1..(Len(content) \div 3) |->
            [key |-> content[3 * i - 2], typ |-> content[3 * i - 1], val |-> content[3 * i]]]]

\* value.get(key).and_then(|v| v.as_str())
GetStr(doc, key) ==
    LET hits == {i \in DOMAIN doc : doc[i].key = key}
    IN IF hits = {} THEN NONE
       ELSE LET i == CHOOSE j \in hits : \A k \in hits : j <= k
            IN IF doc[i].typ = "str" THEN doc[i].val ELSE NONE

\* Result of a reader: ok with a value, or an error message
Ok(v) == [ok |-> TRUE, val |-> v, msg |-> ""]
Err(m) == [ok |-> FALSE, val |-> <<>>, msg |-> m]

read_name_from_pyproject(f, project_home) ==
    LET pyproject_path == Join(project_home, "pyproject.toml")
    IN IF ~Exists(f, pyproject_path) THEN Err("pyproject.toml not found")
       ELSE IF ~IsFile(f, pyproject_path) THEN Err("io error")
       ELSE LET value == ParseDoc(f[pyproject_path].content)
            IN IF ~value.ok THEN Err("toml parse error")
               ELSE IF GetStr(value.fields, "project.name") = NONE
                    THEN Err("Missing 'project.name' in pyproject.toml")
               ELSE Ok(<<GetStr(value.fields, "project.name")>>)

read_name_from_package_json(f, project_home) ==
    LET package_json_path == Join(project_home, "package.json")
    IN IF ~Exists(f, package_json_path) THEN Err("package.json not found")
       ELSE IF ~IsFile(f, package_json_path) THEN Err("io error")
       ELSE LET value == ParseDoc(f[package_json_path].content)
            IN IF ~value.ok THEN Err("json parse error")
               ELSE IF GetStr(value.fields, "name") = NONE
                    THEN Err("Missing 'name' in package.json")
               ELSE Ok(<<GetStr(value.fields, "name")>>)

\* variant: a missing project.version defaults as it does for package.json
read_service_info_from_pyproject_DefaultVersion(f, project_home) ==
    LET pyproject_path == Join(project_home, "pyproject.toml")
    IN IF ~Exists(f, pyproject_path) THEN Err("pyproject.toml not found")
       ELSE IF ~IsFile(f, pyproject_path) THEN Err("io error")
       ELSE LET value == ParseDoc(f[pyproject_path].content)
            IN IF ~value.ok THEN Err("toml parse error")
               ELSE IF GetStr(value.fields, "project.name") = NONE
                    THEN Err("Missing 'project.name' in pyproject.toml")
               ELSE Ok(<<GetStr(value.fields, "project.name"),
                         IF GetStr(value.fields, "project.version") = NONE THEN "1.0.0"
                         ELSE GetStr(value.fields, "project.version")>>)

read_service_info_from_pyproject(f, project_home) ==
    LET pyproject_path == Join(project_home, "pyproject.toml")
    IN IF ~Exists(f, pyproject_path) THEN Err("pyproject.toml not found")
       ELSE IF ~IsFile(f, pyproject_path) THEN Err("io error")
       ELSE LET value == ParseDoc(f[pyproject_path].content)
            IN IF ~value.ok THEN Err("toml parse error")
               ELSE IF GetStr(value.fields, "project.name") = NONE
                    THEN Err("Missing 'project.name' in pyproject.toml")
               ELSE IF GetStr(value.fields, "project.version") = NONE
                    THEN Err("Missing 'project.version' in pyproject.toml")
               ELSE Ok(<<GetStr(value.fields, "project.name"), GetStr(value.fields, "project.version")>>)

read_service_info_from_package_json(f, project_home) ==
    LET package_json_path == Join(project_home, "package.json")
    IN IF ~Exists(f, package_json_path) THEN Err("package.json not found")
       ELSE IF ~IsFile(f, package_json_path) THEN Err("io error")
       ELSE LET value == ParseDoc(f[package_json_path].content)
            IN IF ~value.ok THEN Err("json parse error")
               ELSE IF GetStr(value.fields, "name") = NONE
                    THEN Err("Missing 'name' in package.json")
               ELSE Ok(<<GetStr(value.fields, "name"),
                         IF GetStr(value.fields, "version") = NONE THEN "1.0.0"
                         ELSE GetStr(value.fields, "version")>>)

----------------------------------------------------------------------------
\* detect_project_type

\* variant: the web manifest is looked at before the script manifest
detect_project_type_PackageFirst(f, project_home) ==
    LET pyproject == Join(project_home, "pyproject.toml")
        package_json == Join(project_home, "package.json")
        services_json == Join(project_home, "services.json")
    IN IF Exists(f, package_json) /\ Exists(f, services_json) THEN Ok("foxx")
       ELSE IF Exists(f, package_json) THEN Ok("foxx-service")
       ELSE IF Exists(f, pyproject) THEN Ok("python")
       ELSE Err("Could not detect project type")

detect_project_type(f, project_home) ==
    LET pyproject == Join(project_home, "pyproject.toml")
        package_json == Join(project_home, "package.json")
        services_json == Join(project_home, "services.json")
    IN IF Exists(f, pyproject) THEN Ok("python")
       ELSE IF Exists(f, package_json) /\ Exists(f, services_json) THEN Ok("foxx")
       ELSE IF Exists(f, package_json) THEN Ok("foxx-service")
       ELSE Err("Could not detect project type")

\* file names with the extension "py"
PyNames == {"main.py", "run.py", "app.py", "lib.py"}

find_single_py_file(f, project_home) ==
    LET py_files == {n \in ReadDir(f, project_home) :
                        IsFile(f, Join(project_home, n)) /\ n \in PyNames}
    IN IF Cardinality(py_files) = 1 THEN CHOOSE n \in py_files : TRUE ELSE NONE

----------------------------------------------------------------------------
\* Template rendering.  A text is a sequence of items; a placeholder token is
\* one item, and str::replace substitutes the value's items for it.

RECURSIVE Replace(_, _, _)
Replace(text, tok, val) ==
    IF text = <<>> THEN <<>>
    ELSE (IF Head(text) = tok THEN val ELSE <<Head(text)>>) \o Replace(Tail(text), tok, val)

Digits == {"0", "1", "2", "3", "4", "5", "6", "7", "8", "9"}

\* str::find of a two-character pattern: the first position, or 0
Find2(t, a, b) ==
    LET hits == {i \in 1..(Len(t) - 1) : t[i] = a /\ t[i + 1] = b}
    IN IF hits = {} THEN 0 ELSE CHOOSE i \in hits : \A j \in hits : i <= j

\* variant: another default
DefaultPythonVersion_312 == <<"3", ".", "1", "2">>
DefaultPythonVersion == <<"3", ".", "1", "3">>

\* variant: the first digit of the run, a dot, the remaining digits
extract_python_version_FirstDigitDot(base_image) ==
    LET py_pos == Find2(base_image, "p", "y")
    IN IF py_pos = 0 THEN DefaultPythonVersion
       ELSE LET after_py == SubSeq(base_image, py_pos + 2, Len(base_image))
                nondigit == {i \in 1..Len(after_py) : after_py[i] \notin Digits}
                end_pos == IF nondigit = {} THEN Len(after_py) + 1
                           ELSE CHOOSE i \in nondigit : \A j \in nondigit : i <= j
                version_digits == SubSeq(after_py, 1, end_pos - 1)
            IN IF version_digits = <<>> THEN DefaultPythonVersion
               ELSE <<version_digits[1], ".">> \o Tail(version_digits)

extract_python_version(base_image) ==
    LET py_pos == Find2(base_image, "p", "y")
    IN IF py_pos = 0 THEN DefaultPythonVersion
       ELSE LET after_py == SubSeq(base_image, py_pos + 2, Len(base_image))
                nondigit == {i \in 1..Len(after_py) : after_py[i] \notin Digits}
            IN IF nondigit # {}
               THEN LET end_pos == CHOOSE i \in nondigit : \A j \in nondigit : i <= j
                        version_digits == SubSeq(after_py, 1, end_pos - 1)
                    IN IF version_digits # <<>> THEN <<"3", ".">> \o version_digits
                       ELSE DefaultPythonVersion
               ELSE IF after_py # <<>> THEN <<"3", ".">> \o after_py
               ELSE DefaultPythonVersion

modify_dockerfile_python(template, base_image, dir, entrypoint, port, python_version) ==
    Replace(Replace(Replace(Replace(Replace(template,
        "{BASE_IMAGE}", base_image),
        "{PROJECT_DIR}", <<dir>>),
        "{PORT}", <<ToString(port)>>),
        "{ENTRYPOINT}", <<entrypoint>>),
        "{PYTHON_VERSION}", python_version)

\* variant: the web build file gets a blank for the tokens it has no value for
modify_dockerfile_nodejs_BlankUnknown(template, base_image, dir, port) ==
    Replace(Replace(Replace(Replace(Replace(template,
        "{BASE_IMAGE}", base_image),
        "{PROJECT_DIR}", <<dir>>),
        "{PORT}", <<ToString(port)>>),
        "{ENTRYPOINT}", <<>>),
        "{PYTHON_VERSION}", <<>>)

modify_dockerfile_nodejs(template, base_image, dir, port) ==
    Replace(Replace(Replace(template,
        "{BASE_IMAGE}", base_image),
        "{PROJECT_DIR}", <<dir>>),
        "{PORT}", <<ToString(port)>>)

\* variant: a line end is added to every rendered chart file
RenderChart_TrailingNewline(content, name, ver, port, image_name) ==
    Replace(Replace(Replace(Replace(content,
        "{SERVICE_NAME}", <<name>>),
        "{VERSION}", <<ver>>),
        "{PORT}", <<ToString(port)>>),
        "{IMAGE_NAME}", <<image_name>>) \o <<"\n">>

\* the substitution applied to each chart file by copy_and_replace_charts
RenderChart(content, name, ver, port, image_name) ==
    Replace(Replace(Replace(Replace(content,
        "{SERVICE_NAME}", <<name>>),
        "{VERSION}", <<ver>>),
        "{PORT}", <<ToString(port)>>),
        "{IMAGE_NAME}", <<image_name>>)

\* variant: the two arguments of format! in the other order
generate_services_json_Swapped(name, mount_path) ==
    <<"[", "{", "\"mount\": \"", name, "\",", "\"basePath\": \"", mount_path, "\"", "}", "]">>

\* lines 579-589
generate_services_json(name, mount_path) ==
    <<"[", "{", "\"mount\": \"", mount_path, "\",", "\"basePath\": \"", name, "\"", "}", "]">>

\* Embedded files (include_str!)
DockerfileTemplate ==
    <<"FROM ", "{BASE_IMAGE}", "COPY ", "{PROJECT_DIR}", "ENV PYTHON=", "{PYTHON_VERSION}",
      "EXPOSE ", "{PORT}", "CMD ", "{ENTRYPOINT}">>

DockerfileNodejsTemplate ==
    <<"FROM ", "{BASE_IMAGE}", "COPY ", "{PROJECT_DIR}", "EXPOSE ", "{PORT}">>

CHART_FILES ==
    << [path |-> <<"Chart.yaml">>,
        content |-> <<"name: ", "{SERVICE_NAME}", "version: ", "{VERSION}">>],
       [path |-> <<"values.yaml">>,
        content |-> <<"image: ", "{IMAGE_NAME}", "port: ", "{PORT}">>],
       [path |-> <<"templates", "_helpers.tpl">>, content |-> <<"helpers ", "{SERVICE_NAME}">>],
       [path |-> <<"templates", "deployment.yaml">>,
        content |-> <<"deployment ", "{SERVICE_NAME}", "{IMAGE_NAME}", "{PORT}">>],
       [path |-> <<"templates", "route.yaml">>, content |-> <<"route ", "{SERVICE_NAME}">>],
       [path |-> <<"templates", "service.yaml">>,
        content |-> <<"service ", "{SERVICE_NAME}", "{PORT}">>] >>

SCRIPT_FILES ==
    << [path |-> "prepareproject.sh", content |-> <<"#!prepareproject">>],
       [path |-> "prepareproject-nodejs.sh", content |-> <<"#!prepareproject-nodejs">>],
       [path |-> "zipper.sh", content |-> <<"#!zipper">>] >>

DefaultBaseImage == <<"a", "r", "a", "n", "g", "o", "d", "b", "/", "p", "y", "1", "3", "b", "a", "s", "e", ":", "l", "a", "t", "e", "s", "t">>
NodeBaseImage == <<"a", "r", "a", "n", "g", "o", "d", "b", "/", "n", "o", "d", "e", "2", "2", "b", "a", "s", "e", ":", "l", "a", "t", "e", "s", "t">>

----------------------------------------------------------------------------
\* Inputs of a run

\* std::env::current_dir() and std::process::id()
Cwd == <<"work">>
Pid == 7

\* directory names of the project home
HomeNames == {"svc", "Proj", "scripts"}
HomeOf(d) == <<"projects", d>>

\* str::to_lowercase on the names of the model
ToLowercase(n) == IF n = "Proj" THEN "proj" ELSE n

\* --name, --entrypoint, --mount-path, --port, --image-name as given on the command line
NameArgs == {NONE, "app"}
EntrypointArgs == {NONE, "run.py"}
MountPathArgs == {NONE, "/itz"}
\* Option<u16>::None
NoPort == 0 - 1
PortArgs == {8080, NoPort}
ImageNameArgs == {"img", NONE}

\* what the operator types at a prompt
NameReplies == {"typed"}
EntrypointReplies == {"main.py"}
MountReplies == {"", "/typed"}
PortReplies == {"8080", "http"}
ImageNameReplies == {"img"}

\* which fields the manifests of the project carry
ManifestShapes == [name : BOOLEAN, version : {"absent", "str"}]

PyManifest(shape) ==
    (IF shape.name THEN <<"project.name", "str", "svc">> ELSE <<>>)
    \o (IF shape.version = "absent" THEN <<>> ELSE <<"project.version", shape.version, "2.0.0">>)

PkgManifest(shape) ==
    (IF shape.name THEN <<"name", "str", "web">> ELSE <<>>)
    \o (IF shape.version = "absent" THEN <<>> ELSE <<"version", shape.version, "3.1.0">>)

Markers == {"pyproject.toml", "package.json", "services.json"}

MarkerContent(m, shape) ==
    IF m = "pyproject.toml" THEN PyManifest(shape)
    ELSE IF m = "package.json" THEN PkgManifest(shape)
    ELSE <<"[", "]">>

\* the project tree: sources, a shell script, a virtual environment, dependency
\* caches at two depths
ProjectTree(home, markers, shape) ==
    [p \in {<<"projects">>, home, Join(home, ".venv"), Join(home, "node_modules"),
            Join(home, "src"), Join(Join(home, "src"), "node_modules")} |-> DirEntry]
    @@ [p \in {Join(home, "main.py"), Join(home, "zipper.sh"), Join(Join(home, ".venv"), "lib.py"),
               Join(Join(home, "node_modules"), "m.js"), Join(Join(home, "src"), "app.py"),
               Join(Join(Join(home, "src"), "node_modules"), "x.js")}
            |-> FileEntry(<<FileName(p)>>, DefaultMode)]
    @@ [p \in {Join(home, m) : m \in markers} |-> FileEntry(MarkerContent(FileName(p), shape), DefaultMode)]

\* names a run can end up with, and the workspace name it derives from one
RunNames == (NameArgs \ {NONE}) \cup NameReplies \cup {"svc", "web"} \cup HomeNames
TempDirName(name) == "servicemaker-" \o name \o "-" \o ToString(Pid)

\* the working directory, with or without directories left by earlier runs
WorkTree(stale) ==
    (Cwd :> DirEntry)
    @@ (IF stale
        THEN [p \in {Join(Cwd, TempDirName(n)) : n \in RunNames} |-> DirEntry]
             @@ [p \in {Join(Join(Cwd, TempDirName(n)), "old.txt") : n \in RunNames}
                    |-> FileEntry(<<"old">>, DefaultMode)]
        ELSE <<>>)

Init ==
    /\ \E d \in HomeNames, markers \in SUBSET Markers, shape \in ManifestShapes,
          stale \in BOOLEAN, present \in BOOLEAN,
          n \in NameArgs, e \in EntrypointArgs, m \in MountPathArgs,
          po \in PortArgs, im \in ImageNameArgs, pu \in BOOLEAN, tgz \in BOOLEAN :
          \* a missing project home is tried with one command line only
          /\ ~present => /\ markers = {} /\ ~shape.name /\ shape.version = "absent" /\ ~stale
                         /\ n = NONE /\ e = NONE /\ m = NONE /\ ~pu /\ ~tgz
          /\ fs = (IF present THEN ProjectTree(HomeOf(d), markers, shape) ELSE <<>>)
                  @@ WorkTree(stale)
          /\ args = [name |-> n, project_home |-> HomeOf(d), base_image |-> DefaultBaseImage,
                     port |-> po, image_name |-> im, push |-> pu, entrypoint |-> e,
                     make_tar_gz |-> tgz, mount_path |-> m]
    /\ pc = "start"
    /\ project_type = NONE
    /\ project_dir = NONE
    /\ temp_dir = <<>>
    /\ dirCreated = FALSE
    /\ log = <<>>
    /\ container = "none"
    /\ service_name = NONE
    /\ version = NONE
    /\ err = NONE
    /\ exit_code = 0
    /\ err_args = <<>>
    /\ input = <<>>
    /\ out = <<>>
    /\ zipper_arg = NONE

\* str::parse::<u16>() on the replies of the model; NoPort for Err
ParsePort(reply) == IF reply = "8080" THEN 8080 ELSE NoPort

----------------------------------------------------------------------------
\* main(): one action per step that can end the run

\* return Err(format!(msg, values...)): err is the fixed text of the message,
\* err_args the values interpolated into it
FailWith(msg, values) == pc' = "error" /\ err' = msg /\ err_args' = values

\* return Err(msg)
Fail(msg) == FailWith(msg, <<>>)

\* lines 107-117: the project home must exist
CheckProjectHome ==
    /\ pc = "start"
    /\ IF ~Exists(fs, args.project_home)
       THEN Fail("Project home does not exist")
       ELSE pc' = "detect" /\ UNCHANGED <<err, err_args>>
    /\ UNCHANGED <<input, out, zipper_arg, fs, args, project_type, project_dir, temp_dir, dirCreated, log,
                   container, service_name, version, exit_code>>

\* variant: the detected type is noted in a file of the project home
DetectProjectType_NotesType ==
    /\ pc = "detect"
    /\ LET r == detect_project_type(fs, args.project_home)
       IN /\ IF r.ok
             THEN pc' = "configure" /\ project_type' = r.val /\ UNCHANGED <<err, err_args>>
             ELSE Fail(r.msg) /\ project_type' = project_type
          /\ fs' = WriteFile(fs, Join(args.project_home, ".servicemaker"),
                             <<IF r.ok THEN r.val ELSE "unknown">>)
    /\ UNCHANGED <<input, out, zipper_arg, args, project_dir, temp_dir, dirCreated, log, container,
                   service_name, version, exit_code>>

\* lines 119-121
DetectProjectType ==
    /\ pc = "detect"
    /\ LET r == detect_project_type(fs, args.project_home)
       IN IF r.ok
          THEN pc' = "configure" /\ project_type' = r.val /\ UNCHANGED <<err, err_args>>
          ELSE Fail(r.msg) /\ project_type' = project_type
    /\ UNCHANGED <<input, out, zipper_arg, fs, args, project_dir, temp_dir, dirCreated, log, container,
                   service_name, version, exit_code>>

\* lines 124-191: the configuration that depends on the project type
TypeConfig(a, f, entryReply, mountReply) ==
    LET home == a.project_home
        dirname == FileName(home)
    IN IF project_type = "python"
       THEN LET byManifest == read_name_from_pyproject(f, home)
                found == find_single_py_file(f, home)
            IN [a EXCEPT
                  !.name = IF @ = NONE /\ byManifest.ok THEN byManifest.val[1] ELSE @,
                  !.entrypoint = IF @ # NONE THEN @
                                 ELSE IF found # NONE THEN found ELSE entryReply]
       ELSE IF project_type = "foxx"
       THEN LET byManifest == read_name_from_package_json(f, home)
            IN [a EXCEPT
                  !.name = IF @ = NONE /\ byManifest.ok THEN byManifest.val[1] ELSE @,
                  !.base_image = IF @ = DefaultBaseImage THEN NodeBaseImage ELSE @]
       ELSE LET byManifest == read_name_from_package_json(f, home)
                default_mount == "/" \o ToLowercase(dirname)
            IN [a EXCEPT
                  !.name = IF @ # NONE THEN @
                           ELSE IF byManifest.ok THEN byManifest.val[1] ELSE dirname,
                  !.base_image = IF @ = DefaultBaseImage THEN NodeBaseImage ELSE @,
                  !.mount_path = IF project_type = "foxx-service" /\ @ = NONE
                                 THEN (IF mountReply = "" THEN default_mount ELSE mountReply)
                                 ELSE @]

\* whether lines 124-207 call prompt() at all
Prompts(a, f) ==
    LET t == TypeConfig(a, f, NONE, NONE)
    IN \/ t.name = NONE \/ a.port = NoPort \/ a.image_name = NONE
       \/ (project_type = "python" /\ t.entrypoint = NONE)
       \/ (project_type = "foxx-service" /\ a.mount_path = NONE)

\* lines 123-212: resolve every parameter, prompting for the missing ones
ConfigureProject ==
    /\ pc = "configure"
    /\ \/ \E nameReply \in NameReplies, entryReply \in EntrypointReplies,
             mountReply \in MountReplies, portReply \in PortReplies,
             imageReply \in ImageNameReplies :
             LET t == TypeConfig(args, fs, entryReply, mountReply)
                 port == IF t.port = NoPort THEN ParsePort(portReply) ELSE t.port
             IN IF port = NoPort
                THEN \* expect("Invalid port number") panics
                     /\ Fail("Invalid port number")
                     /\ args' = [t EXCEPT !.name = IF @ = NONE THEN nameReply ELSE @]
                ELSE /\ pc' = "mktemp" /\ UNCHANGED <<err, err_args>>
                     /\ args' = [t EXCEPT !.name = IF @ = NONE THEN nameReply ELSE @,
                                          !.port = port,
                                          !.image_name = IF @ = NONE THEN imageReply ELSE @]
       \/ \* prompt() returns an io::Error
          /\ Prompts(args, fs)
          /\ Fail("io error")
          /\ args' = args
    /\ UNCHANGED <<input, out, zipper_arg, fs, project_type, project_dir, temp_dir, dirCreated, log, container,
                   service_name, version, exit_code>>

\* variant: a directory of the same name is kept and used as it is
CreateTempDir_KeepExisting ==
    /\ pc = "mktemp"
    /\ LET t == Join(Cwd, TempDirName(args.name))
       IN /\ temp_dir' = t
          /\ \/ /\ Fail("io error") /\ fs' = fs /\ dirCreated' = dirCreated
             \/ /\ pc' = "scripts" /\ UNCHANGED <<err, err_args>>
                /\ fs' = CreateDirAll(fs, t)
                /\ dirCreated' = TRUE
    /\ UNCHANGED <<input, out, zipper_arg, args, project_type, project_dir, log, container, service_name,
                   version, exit_code>>

\* lines 232-240: a directory of the same name is removed, then the workspace is created
CreateTempDir ==
    /\ pc = "mktemp"
    /\ LET t == Join(Cwd, TempDirName(args.name))
           cleared == IF Exists(fs, t) THEN RemoveDirAll(fs, t) ELSE fs
       IN /\ temp_dir' = t
          /\ \/ \* current_dir() or remove_dir_all fails
                /\ Fail("io error") /\ fs' = fs /\ dirCreated' = dirCreated
             \/ \* create_dir_all fails
                /\ Fail("io error") /\ fs' = cleared /\ dirCreated' = dirCreated
             \/ /\ pc' = "scripts" /\ UNCHANGED <<err, err_args>>
                /\ fs' = CreateDirAll(cleared, t)
                /\ dirCreated' = TRUE
    /\ UNCHANGED <<input, out, zipper_arg, args, project_type, project_dir, log, container, service_name,
                   version, exit_code>>

RECURSIVE WriteScripts(_, _, _)
\* the loop of copy_scripts_to_temp over SCRIPT_FILES[i..]
WriteScripts(f, scripts_dir, i) ==
    IF i > Len(SCRIPT_FILES) THEN f
    ELSE LET dest_path == Join(scripts_dir, SCRIPT_FILES[i].path)
         IN WriteScripts(SetMode(WriteFile(f, dest_path, SCRIPT_FILES[i].content),
                                 dest_path, ExecMode),
                         scripts_dir, i + 1)

copy_scripts_to_temp(f, dir) ==
    LET scripts_dir == Join(dir, "scripts")
    IN WriteScripts(CreateDirAll(f, scripts_dir), scripts_dir, 1)

\* lines 242-243
CopyScriptsToTemp ==
    /\ pc = "scripts"
    /\ \/ Fail("io error") /\ fs' = fs
       \/ pc' = "stage" /\ UNCHANGED <<err, err_args>> /\ fs' = copy_scripts_to_temp(fs, temp_dir)
    /\ UNCHANGED <<input, out, zipper_arg, args, project_type, project_dir, temp_dir, dirCreated, log, container,
                   service_name, version, exit_code>>

\* lines 246-280: the wrapper layout of a single service
StageWrapperCopy(f, home, dir) ==
    LET wrapper_dir == Join(dir, "wrapper")
        service_dest == Join(wrapper_dir, FileName(home))
        copied == CopyDirRecursive(CreateDirAll(f, wrapper_dir), home, service_dest)
        service_package_json == Join(service_dest, "package.json")
    IN IF Exists(copied, service_package_json)
       THEN CopyFile(copied, service_package_json, Join(wrapper_dir, "package.json"))
       ELSE copied

\* lines 270-278: the generated services.json
StageWrapper(f, home, dir, mount_path) ==
    WriteFile(StageWrapperCopy(f, home, dir), Join(Join(dir, "wrapper"), "services.json"),
              generate_services_json(FileName(home), mount_path))

\* lines 282-290: the project directory copied as it is
StageFlat(f, home, dir) == CopyDirRecursive(f, home, Join(dir, FileName(home)))

\* lines 245-291
StageProject ==
    /\ pc = "stage"
    /\ \/ Fail("io error") /\ fs' = fs /\ project_dir' = project_dir
       \/ IF project_type = "foxx-service"
          THEN IF args.mount_path = NONE
               THEN /\ Fail("Mount path is required for foxx-service")
                    /\ project_dir' = project_dir
                    /\ fs' = StageWrapperCopy(fs, args.project_home, temp_dir)
               ELSE /\ pc' = "dockerfile" /\ UNCHANGED <<err, err_args>>
                    /\ project_dir' = "wrapper"
                    /\ fs' = StageWrapper(fs, args.project_home, temp_dir, args.mount_path)
          ELSE /\ pc' = "dockerfile" /\ UNCHANGED <<err, err_args>>
               /\ project_dir' = FileName(args.project_home)
               /\ fs' = StageFlat(fs, args.project_home, temp_dir)
    /\ UNCHANGED <<input, out, zipper_arg, args, project_type, temp_dir, dirCreated, log, container,
                   service_name, version, exit_code>>

\* lines 293-313
modified_dockerfile ==
    IF project_type = "python"
    THEN modify_dockerfile_python(DockerfileTemplate, args.base_image, project_dir,
                                  args.entrypoint, args.port,
                                  extract_python_version(args.base_image))
    ELSE modify_dockerfile_nodejs(DockerfileNodejsTemplate, args.base_image, project_dir,
                                  args.port)

\* lines 293-318
WriteDockerfile ==
    /\ pc = "dockerfile"
    /\ \/ Fail("io error") /\ fs' = fs
       \/ /\ pc' = "build" /\ UNCHANGED <<err, err_args>>
          /\ fs' = WriteFile(fs, Join(temp_dir, "Dockerfile"), modified_dockerfile)
    /\ UNCHANGED <<input, out, zipper_arg, args, project_type, project_dir, temp_dir, dirCreated, log, container,
                   service_name, version, exit_code>>

----------------------------------------------------------------------------
\* External commands.  Command::status()/output() either fails to start the
\* command (an io::Error, nothing invoked) or returns its exit status.
\* What docker prints on success is taken to be well formed: docker run -d
\* prints a container id (line 370) and docker inspect an integer (lines 394-396).

Invoked(cmd, code) == log' = Append(log, [cmd |-> cmd, code |-> code])

\* variant: the manifest is read right after the push, the snapshot left out
AfterPush_SkipSnapshot == "read_info"
\* the step after a successful build, and after a successful or skipped push
AfterPush == IF args.make_tar_gz THEN "run" ELSE "read_info"
\* variant: push whatever the flag says
AfterBuild_AlwaysPush == "push"
\* variant: the snapshot nested under the push branch
AfterBuild_SnapshotUnderPush == IF args.push THEN "push" ELSE "read_info"
AfterBuild == IF args.push THEN "push" ELSE AfterPush

\* variant: a failed build is tried again
DockerBuild_RetryOnFailure ==
    /\ pc = "build"
    /\ \/ Fail("io error") /\ log' = log
       \/ \E code \in ExitCodes :
             /\ Invoked("build", code)
             /\ IF code # 0 THEN UNCHANGED <<pc, err, err_args>>
                ELSE pc' = AfterBuild /\ UNCHANGED <<err, err_args>>
    /\ UNCHANGED <<input, out, zipper_arg, fs, args, project_type, project_dir, temp_dir, dirCreated, container,
                   service_name, version, exit_code>>

\* variant: the exit status of the build is not looked at
DockerBuild_IgnoreStatus ==
    /\ pc = "build"
    /\ \/ Fail("io error") /\ log' = log
       \/ \E code \in ExitCodes :
             /\ Invoked("build", code)
             /\ pc' = AfterBuild /\ UNCHANGED <<err, err_args>>
    /\ UNCHANGED <<input, out, zipper_arg, fs, args, project_type, project_dir, temp_dir, dirCreated, container,
                   service_name, version, exit_code>>

\* variant: a failed build removes the workspace
DockerBuild_CleanupOnFailure ==
    /\ pc = "build"
    /\ \/ Fail("io error") /\ log' = log /\ fs' = fs
       \/ \E code \in ExitCodes :
             /\ Invoked("build", code)
             /\ IF code # 0
                THEN Fail("Docker build failed") /\ fs' = RemoveDirAll(fs, temp_dir)
                ELSE pc' = AfterBuild /\ UNCHANGED <<err, err_args>> /\ fs' = fs
    /\ UNCHANGED <<input, out, zipper_arg, args, project_type, project_dir, temp_dir, dirCreated, container,
                   service_name, version, exit_code>>

\* lines 320-331: docker build
DockerBuild ==
    /\ pc = "build"
    /\ \/ Fail("io error") /\ log' = log
       \/ \E code \in ExitCodes :
             /\ Invoked("build", code)
             /\ IF code # 0 THEN Fail("Docker build failed")
                ELSE pc' = AfterBuild /\ UNCHANGED <<err, err_args>>
    /\ UNCHANGED <<input, out, zipper_arg, fs, args, project_type, project_dir, temp_dir, dirCreated, container,
                   service_name, version, exit_code>>

\* lines 333-343: docker push
DockerPush ==
    /\ pc = "push"
    /\ \/ Fail("io error") /\ log' = log
       \/ \E code \in ExitCodes :
             /\ Invoked("push", code)
             /\ IF code # 0 THEN Fail("Docker push failed")
                ELSE pc' = AfterPush /\ UNCHANGED <<err, err_args>>
    /\ UNCHANGED <<input, out, zipper_arg, fs, args, project_type, project_dir, temp_dir, dirCreated, container,
                   service_name, version, exit_code>>

\* lines 349-373: docker run -d; a zero status means the container was started
DockerRun ==
    /\ pc = "run"
    /\ \/ Fail("io error") /\ log' = log /\ container' = container /\ zipper_arg' = zipper_arg
       \/ \E code \in ExitCodes :
             /\ Invoked("run", code)
             /\ zipper_arg' = project_dir
             /\ IF code # 0
                THEN Fail("Failed to start Docker container") /\ container' = container
                ELSE pc' = "wait" /\ UNCHANGED <<err, err_args>> /\ container' = "running"
    /\ UNCHANGED <<input, out, fs, args, project_type, project_dir, temp_dir, dirCreated,
                   service_name, version, exit_code>>

\* lines 375-383: docker wait; a zero status means the container has exited
DockerWait ==
    /\ pc = "wait"
    /\ \/ Fail("io error") /\ log' = log /\ container' = container
       \/ \E code \in ExitCodes :
             /\ Invoked("wait", code)
             /\ IF code # 0
                THEN Fail("Failed to wait for container") /\ container' = container
                ELSE pc' = "inspect" /\ UNCHANGED <<err, err_args>> /\ container' = "exited"
    /\ UNCHANGED <<input, out, zipper_arg, fs, args, project_type, project_dir, temp_dir, dirCreated,
                   service_name, version, exit_code>>

\* variant: the container's exit code is read and not checked
DockerInspect_NoExitCheck ==
    /\ pc = "inspect"
    /\ \/ Fail("io error") /\ log' = log /\ exit_code' = exit_code
       \/ \E code \in ExitCodes :
             /\ Invoked("inspect", code)
             /\ IF code # 0
                THEN Fail("Failed to inspect container exit code") /\ exit_code' = exit_code
                ELSE \E c \in ContainerExitCodes :
                        exit_code' = c /\ pc' = "cp" /\ UNCHANGED <<err, err_args>>
    /\ UNCHANGED <<input, out, zipper_arg, fs, args, project_type, project_dir, temp_dir, dirCreated, container,
                   service_name, version>>

\* lines 385-400: docker inspect and the check of the container's exit code
DockerInspect ==
    /\ pc = "inspect"
    /\ \/ Fail("io error") /\ log' = log /\ exit_code' = exit_code
       \/ \E code \in ExitCodes :
             /\ Invoked("inspect", code)
             /\ IF code # 0
                THEN Fail("Failed to inspect container exit code") /\ exit_code' = exit_code
                ELSE \E c \in ContainerExitCodes :
                        /\ exit_code' = c
                        /\ IF c # 0 THEN FailWith("Container exited with code", <<ToString(c)>>)
                           ELSE pc' = "cp" /\ UNCHANGED <<err, err_args>>
    /\ UNCHANGED <<input, out, zipper_arg, fs, args, project_type, project_dir, temp_dir, dirCreated, container,
                   service_name, version>>

\* variant: the container is not removed after the copy
DockerCp_NoRemove ==
    /\ pc = "cp"
    /\ \/ Fail("io error") /\ log' = log /\ fs' = fs
       \/ \E code \in ExitCodes, written \in BOOLEAN :
             /\ Invoked("cp", code)
             /\ fs' = IF written
                      THEN WriteFile(fs, Join(temp_dir, "project.tar.gz"), <<"archive">>)
                      ELSE fs
             /\ IF code # 0 THEN Fail("Failed to copy project.tar.gz from container")
                ELSE IF written THEN pc' = "read_info" /\ UNCHANGED <<err, err_args>>
                ELSE Fail("project.tar.gz not found")
    /\ UNCHANGED <<input, out, zipper_arg, args, project_type, project_dir, temp_dir, dirCreated, container,
                   service_name, version, exit_code>>

\* lines 402-415: docker cp; the command may or may not have written the archive
DockerCp ==
    /\ pc = "cp"
    /\ \/ Fail("io error") /\ log' = log /\ fs' = fs
       \/ \E code \in ExitCodes, written \in BOOLEAN :
             /\ Invoked("cp", code)
             /\ fs' = IF written
                      THEN WriteFile(fs, Join(temp_dir, "project.tar.gz"), <<"archive">>)
                      ELSE fs
             /\ IF code # 0 THEN Fail("Failed to copy project.tar.gz from container")
                ELSE pc' = "rm" /\ UNCHANGED <<err, err_args>>
    /\ UNCHANGED <<input, out, zipper_arg, args, project_type, project_dir, temp_dir, dirCreated, container,
                   service_name, version, exit_code>>

\* variant: the archive is not looked for after the container is removed
DockerRm_NoArchiveCheck ==
    /\ pc = "rm"
    /\ \/ Fail("io error") /\ log' = log /\ container' = container
       \/ \E code \in ExitCodes :
             /\ Invoked("rm", code)
             /\ IF code # 0
                THEN Fail("Failed to remove container") /\ container' = container
                ELSE /\ container' = "removed"
                     /\ pc' = "read_info" /\ UNCHANGED <<err, err_args>>
    /\ UNCHANGED <<input, out, zipper_arg, fs, args, project_type, project_dir, temp_dir, dirCreated,
                   service_name, version, exit_code>>

\* lines 417-435: docker rm, then the check that the archive is there
DockerRm ==
    /\ pc = "rm"
    /\ \/ Fail("io error") /\ log' = log /\ container' = container
       \/ \E code \in ExitCodes :
             /\ Invoked("rm", code)
             /\ IF code # 0
                THEN Fail("Failed to remove container") /\ container' = container
                ELSE /\ container' = "removed"
                     /\ IF Exists(fs, Join(temp_dir, "project.tar.gz"))
                        THEN pc' = "read_info" /\ UNCHANGED <<err, err_args>>
                        ELSE Fail("project.tar.gz not found")
    /\ UNCHANGED <<input, out, zipper_arg, fs, args, project_type, project_dir, temp_dir, dirCreated,
                   service_name, version, exit_code>>

----------------------------------------------------------------------------
\* Chart generation

\* variant: package.json read whatever the project type
read_service_info_PackageOnly(f, home) == read_service_info_from_package_json(f, home)

\* lines 439-453: the manifest reader that goes with the project type
read_service_info(f, home) ==
    IF project_type = "python" THEN read_service_info_from_pyproject(f, home)
    ELSE read_service_info_from_package_json(f, home)

ReadServiceInfo ==
    /\ pc = "read_info"
    /\ LET r == read_service_info(fs, args.project_home)
       IN IF r.ok
          THEN /\ pc' = "charts" /\ UNCHANGED <<err, err_args>>
               /\ service_name' = r.val[1] /\ version' = r.val[2]
          ELSE Fail(r.msg) /\ UNCHANGED <<service_name, version>>
    /\ UNCHANGED <<input, out, zipper_arg, fs, args, project_type, project_dir, temp_dir, dirCreated, log,
                   container, exit_code>>

\* variant: the chart directory named after the project name of the run
chart_dir_FromProjectName == Join(temp_dir, args.name)
\* line 455 and line 484
chart_dir == Join(temp_dir, service_name)
chart_file_name == service_name \o "-" \o version \o ".tgz"

RECURSIVE WriteCharts(_, _, _, _, _, _, _)
\* the loop of copy_and_replace_charts over CHART_FILES[i..]
WriteCharts(f, dst, name, ver, port, image_name, i) ==
    IF i > Len(CHART_FILES) THEN f
    ELSE LET dest_path == dst \o CHART_FILES[i].path
             parent == SubSeq(dest_path, 1, Len(dest_path) - 1)
             modified_content == RenderChart(CHART_FILES[i].content, name, ver, port, image_name)
         IN WriteCharts(WriteFile(CreateDirAll(f, parent), dest_path, modified_content),
                        dst, name, ver, port, image_name, i + 1)

copy_and_replace_charts(f, dst, name, ver, port, image_name) ==
    WriteCharts(IF ~Exists(f, dst) THEN CreateDirAll(f, dst) ELSE f,
                dst, name, ver, port, image_name, 1)

\* lines 455-458
CopyAndReplaceCharts ==
    /\ pc = "charts"
    /\ \/ Fail("io error") /\ fs' = fs
       \/ /\ pc' = "lint" /\ UNCHANGED <<err, err_args>>
          /\ fs' = copy_and_replace_charts(fs, chart_dir, service_name, version,
                                           args.port, args.image_name)
    /\ UNCHANGED <<input, out, zipper_arg, args, project_type, project_dir, temp_dir, dirCreated, log, container,
                   service_name, version, exit_code>>

\* lines 460-470: helm lint
HelmLint ==
    /\ pc = "lint"
    /\ \/ Fail("io error") /\ log' = log
       \/ \E code \in ExitCodes :
             /\ Invoked("lint", code)
             /\ IF code # 0 THEN Fail("Helm lint failed")
                ELSE pc' = "package" /\ UNCHANGED <<err, err_args>>
    /\ UNCHANGED <<input, out, zipper_arg, fs, args, project_type, project_dir, temp_dir, dirCreated, container,
                   service_name, version, exit_code>>

\* variant: success is reported without looking for the archive
HelmPackage_NoArtifactCheck ==
    /\ pc = "package"
    /\ \/ Fail("io error") /\ log' = log /\ fs' = fs
       \/ \E code \in ExitCodes, written \in BOOLEAN :
             /\ Invoked("package", code)
             /\ fs' = IF written
                      THEN WriteFile(fs, Join(temp_dir, chart_file_name), <<"chart archive">>)
                      ELSE fs
             /\ IF code # 0 THEN Fail("Helm package failed")
                ELSE pc' = "done" /\ UNCHANGED <<err, err_args>>
    /\ UNCHANGED <<input, out, zipper_arg, args, project_type, project_dir, temp_dir, dirCreated, container,
                   service_name, version, exit_code>>

\* lines 472-500: helm package, which may or may not have written the archive,
\* then the check that the archive is there
HelmPackage ==
    /\ pc = "package"
    /\ \/ Fail("io error") /\ log' = log /\ fs' = fs
       \/ \E code \in ExitCodes, written \in BOOLEAN :
             /\ Invoked("package", code)
             /\ fs' = IF written
                      THEN WriteFile(fs, Join(temp_dir, chart_file_name), <<"chart archive">>)
                      ELSE fs
             /\ IF code # 0 THEN Fail("Helm package failed")
                ELSE IF Exists(fs', Join(temp_dir, chart_file_name))
                     THEN pc' = "done" /\ UNCHANGED <<err, err_args>>
                     ELSE Fail("Helm chart file not found")
    /\ UNCHANGED <<input, out, zipper_arg, args, project_type, project_dir, temp_dir, dirCreated, container,
                   service_name, version, exit_code>>

----------------------------------------------------------------------------
Next ==
    \/ CheckProjectHome
    \/ DetectProjectType
    \/ ConfigureProject
    \/ CreateTempDir
    \/ CopyScriptsToTemp
    \/ StageProject
    \/ WriteDockerfile
    \/ DockerBuild
    \/ DockerPush
    \/ DockerRun
    \/ DockerWait
    \/ DockerInspect
    \/ DockerCp
    \/ DockerRm
    \/ ReadServiceInfo
    \/ CopyAndReplaceCharts
    \/ HelmLint
    \/ HelmPackage

Spec == Init /\ [][Next]_vars

----------------------------------------------------------------------------
\* copy_dir_recursive on its own, over every small project tree

\* largest number of entries below the root of a source tree
MaxEntries == 4

TreeNames == {".venv", "node_modules", "src"}
SrcRoot == HomeOf("svc")
DstRoot == <<"work", "ws", "svc">>

\* the trees that have one entry more than t; a file holds its own path
Grow(t) ==
    {(Join(pn[1], pn[2]) :> (IF kind = "dir" THEN DirEntry
                             ELSE FileEntry(Join(pn[1], pn[2]), DefaultMode))) @@ t :
        pn \in {x \in {q \in DOMAIN t : IsPrefix(SrcRoot, q) /\ t[q].kind = "dir"} \X TreeNames :
                   Join(x[1], x[2]) \notin DOMAIN t},
        kind \in {"dir", "file"}}

RECURSIVE Trees(_)
\* the trees with at most k entries below SrcRoot
Trees(k) ==
    IF k = 0 THEN {[p \in {<<"projects">>, SrcRoot} |-> DirEntry]}
    ELSE Trees(k - 1) \cup UNION {Grow(t) : t \in Trees(k - 1)}

\* the destination is missing, or is there and empty
DstTrees == {<<>>, [p \in {<<"work">>, <<"work", "ws">>, DstRoot} |-> DirEntry]}

InitCopy ==
    /\ \E t \in Trees(MaxEntries), w \in DstTrees : fs = t @@ w
    /\ args = [name |-> "svc", project_home |-> SrcRoot, base_image |-> DefaultBaseImage,
               port |-> 8080, image_name |-> "img", push |-> FALSE, entrypoint |-> NONE,
               make_tar_gz |-> FALSE, mount_path |-> NONE]
    /\ pc = "copy"
    /\ project_type = NONE
    /\ project_dir = NONE
    /\ temp_dir = <<"work", "ws">>
    /\ dirCreated = FALSE
    /\ log = <<>>
    /\ container = "none"
    /\ service_name = NONE
    /\ version = NONE
    /\ err = NONE
    /\ exit_code = 0
    /\ err_args = <<>>
    /\ input = <<>>
    /\ out = <<>>
    /\ zipper_arg = NONE

\* copy_dir_recursive(project_home, temp_dir/<directory name>)
CopyTree ==
    /\ pc = "copy"
    /\ pc' = "copied"
    /\ fs' = CopyDirRecursive(fs, SrcRoot, DstRoot)
    /\ project_dir' = FileName(DstRoot)
    /\ UNCHANGED <<input, out, zipper_arg, args, project_type, temp_dir, dirCreated, log, container,
                   service_name, version, err, err_args, exit_code>>

NextCopy == CopyTree

SpecCopy == InitCopy /\ [][NextCopy]_vars

----------------------------------------------------------------------------
\* The manifest readers on their own, over manifests of every shape

\* a field is absent, a string, or a value that is not a string
MetaShapes == [name : {"absent", "str", "num"}, version : {"absent", "str", "num"}]

PyDoc(shape) ==
    (IF shape.name = "absent" THEN <<>> ELSE <<"project.name", shape.name, "svc">>)
    \o (IF shape.version = "absent" THEN <<>> ELSE <<"project.version", shape.version, "2.0.0">>)

PkgDoc(shape) ==
    (IF shape.name = "absent" THEN <<>> ELSE <<"name", shape.name, "web">>)
    \o (IF shape.version = "absent" THEN <<>> ELSE <<"version", shape.version, "3.1.0">>)

\* a document that does not parse
BadDoc == <<"{">>

\* the manifest is missing (<<>> stands for no file), unparsable, or of some shape
PyFiles == {<<>>} \cup {<<BadDoc>>} \cup {<<PyDoc(sh)>> : sh \in MetaShapes}
PkgFiles == {<<>>} \cup {<<BadDoc>>} \cup {<<PkgDoc(sh)>> : sh \in MetaShapes}

MetaTree(py, pkg) ==
    [p \in {<<"projects">>, SrcRoot} |-> DirEntry]
    @@ (IF py = <<>> THEN <<>>
        ELSE (Join(SrcRoot, "pyproject.toml") :> FileEntry(py[1], DefaultMode)))
    @@ (IF pkg = <<>> THEN <<>>
        ELSE (Join(SrcRoot, "package.json") :> FileEntry(pkg[1], DefaultMode)))

InitMeta ==
    /\ \E py \in PyFiles, pkg \in PkgFiles : fs = MetaTree(py, pkg)
    /\ project_type \in {"python", "foxx", "foxx-service"}
    /\ args = [name |-> "app", project_home |-> SrcRoot, base_image |-> DefaultBaseImage,
               port |-> 8080, image_name |-> "img", push |-> FALSE, entrypoint |-> NONE,
               make_tar_gz |-> FALSE, mount_path |-> NONE]
    /\ pc = "read_info"
    /\ project_dir = NONE
    /\ temp_dir = <<"work", "ws">>
    /\ dirCreated = FALSE
    /\ log = <<>>
    /\ container = "none"
    /\ service_name = NONE
    /\ version = NONE
    /\ err = NONE
    /\ exit_code = 0
    /\ err_args = <<>>
    /\ input = <<>>
    /\ out = <<>>
    /\ zipper_arg = NONE

NextMeta == ReadServiceInfo

SpecMeta == InitMeta /\ [][NextMeta]_vars

----------------------------------------------------------------------------
\* extract_python_version on its own, over every short base image name

\* longest base image name
MaxImageLen == 5

ImageAlphabet == {"p", "y", "1", "3", "b"}
ImageNames == UNION {[1..n -> ImageAlphabet] : n \in 0..MaxImageLen}

InitVer ==
    /\ input \in ImageNames
    /\ out = <<>>
    /\ zipper_arg = NONE
    /\ pc = "version"
    /\ fs = <<>>
    /\ args = [name |-> "app", project_home |-> SrcRoot, base_image |-> DefaultBaseImage,
               port |-> 8080, image_name |-> "img", push |-> FALSE, entrypoint |-> NONE,
               make_tar_gz |-> FALSE, mount_path |-> NONE]
    /\ project_type = "python"
    /\ project_dir = NONE
    /\ temp_dir = <<>>
    /\ dirCreated = FALSE
    /\ log = <<>>
    /\ container = "none"
    /\ service_name = NONE
    /\ version = NONE
    /\ err = NONE
    /\ exit_code = 0
    /\ err_args = <<>>

\* line 296: let python_version = extract_python_version(&args.base_image)
ExtractVersion ==
    /\ pc = "version"
    /\ pc' = "versioned"
    /\ out' = extract_python_version(input)
    /\ UNCHANGED <<zipper_arg, fs, args, project_type, project_dir, temp_dir, dirCreated, log, container,
                   service_name, version, err, err_args, exit_code, input>>

NextVer == ExtractVersion

SpecVer == InitVer /\ [][NextVer]_vars

----------------------------------------------------------------------------
\* The three renderers on their own, over every short template

\* longest template, in items
MaxTemplateLen == 2

BuildTokens == {"{BASE_IMAGE}", "{PROJECT_DIR}", "{PORT}", "{ENTRYPOINT}", "{PYTHON_VERSION}"}
ChartTokens == {"{SERVICE_NAME}", "{VERSION}", "{PORT}", "{IMAGE_NAME}"}
TemplateItems == BuildTokens \cup ChartTokens \cup {"x"}
Templates == UNION {[1..n -> TemplateItems] : n \in 0..MaxTemplateLen}

\* values: plain, empty, and values that read like a token
StringValues == {"v", "", "{PORT}", "{ENTRYPOINT}"}
ImageValues == {<<"b">>, <<"{PORT}">>}
VersionValues == {DefaultPythonVersion, <<"{BASE_IMAGE}">>}

RenderInputs ==
    [renderer : {"python"}, template : Templates, base_image : ImageValues,
     dir : StringValues, entrypoint : StringValues, python_version : VersionValues,
     name : {"v"}, ver : {"v"}, image_name : {"v"}, port : {8080}]
    \cup
    [renderer : {"nodejs"}, template : Templates, base_image : ImageValues,
     dir : StringValues, entrypoint : {"v"}, python_version : {DefaultPythonVersion},
     name : {"v"}, ver : {"v"}, image_name : {"v"}, port : {8080}]
    \cup
    [renderer : {"chart"}, template : Templates, base_image : {<<"b">>},
     dir : {"v"}, entrypoint : {"v"}, python_version : {DefaultPythonVersion},
     name : StringValues, ver : StringValues, image_name : StringValues, port : {8080}]

\* the renderer called at lines 299-306, at line 310 and at lines 788-793
RenderWith(renderer, template, v) ==
    IF renderer = "python"
    THEN modify_dockerfile_python(template, v.base_image, v.dir, v.entrypoint, v.port,
                                  v.python_version)
    ELSE IF renderer = "nodejs"
    THEN modify_dockerfile_nodejs(template, v.base_image, v.dir, v.port)
    ELSE RenderChart(template, v.name, v.ver, v.port, v.image_name)

InitRender ==
    /\ input \in RenderInputs
    /\ out = <<>>
    /\ zipper_arg = NONE
    /\ pc = "render"
    /\ fs = <<>>
    /\ args = [name |-> "app", project_home |-> SrcRoot, base_image |-> DefaultBaseImage,
               port |-> 8080, image_name |-> "img", push |-> FALSE, entrypoint |-> NONE,
               make_tar_gz |-> FALSE, mount_path |-> NONE]
    /\ project_type = NONE
    /\ project_dir = NONE
    /\ temp_dir = <<>>
    /\ dirCreated = FALSE
    /\ log = <<>>
    /\ container = "none"
    /\ service_name = NONE
    /\ version = NONE
    /\ err = NONE
    /\ exit_code = 0
    /\ err_args = <<>>

Render ==
    /\ pc = "render"
    /\ pc' = "rendered"
    /\ out' = RenderWith(input.renderer, input.template, input)
    /\ UNCHANGED <<zipper_arg, fs, args, project_type, project_dir, temp_dir, dirCreated, log, container,
                   service_name, version, err, err_args, exit_code, input>>

NextRender == Render

SpecRender == InitRender /\ [][NextRender]_vars

----------------------------------------------------------------------------
\* Two runs at once: two processes of the program in the same working
\* directory, each at its own position in main(), on one file system.  A run
\* is cut where it changes the file system; input[r] is what run r has
\* settled before it creates its workspace.

Runs == {1, 2}
Other(r) == 3 - r
PairNames == {"a", "b"}
PairPids == {7, 8}
PairHomes == {"svc", "Proj"}

\* variant: a workspace name without the project name and the process id
WorkspaceName_Fixed(name, pid) == "servicemaker"
\* variant: a workspace name without the process id
WorkspaceName_NoPid(name, pid) == "servicemaker-" \o name
\* line 234: format!("servicemaker-{}-{}", name, std::process::id())
WorkspaceName(name, pid) == "servicemaker-" \o name \o "-" \o ToString(pid)

WorkspaceOf(r) == Join(Cwd, WorkspaceName(input[r].name, input[r].pid))

\* the python project svc and the single service Proj
PairProjects ==
    ProjectTree(HomeOf("svc"), {"pyproject.toml"}, [name |-> TRUE, version |-> "str"])
    @@ ProjectTree(HomeOf("Proj"), {"package.json"}, [name |-> TRUE, version |-> "str"])

\* a directory of the workspace's name left by an earlier run
StaleWorkspace(name, pid) ==
    LET t == Join(Cwd, WorkspaceName(name, pid))
    IN (t :> DirEntry) @@ (Join(t, "old.txt") :> FileEntry(<<"old">>, DefaultMode))

InitPair ==
    /\ \E n \in [Runs -> PairNames], pids \in [Runs -> PairPids], d \in [Runs -> PairHomes],
          stale \in [Runs -> BOOLEAN], tgz \in [Runs -> BOOLEAN] :
          \* two processes alive at once: two process ids, any two project names
          /\ pids[1] # pids[2]
          /\ input = [r \in Runs |->
                        [name |-> n[r], pid |-> pids[r], project_home |-> HomeOf(d[r]),
                         project_type |-> IF d[r] = "svc" THEN "python" ELSE "foxx-service",
                         mount_path |-> "/itz", entrypoint |-> "main.py", port |-> 8080,
                         image_name |-> "img", make_tar_gz |-> tgz[r],
                         base_image |-> IF d[r] = "svc" THEN DefaultBaseImage ELSE NodeBaseImage,
                         service_name |-> IF d[r] = "svc" THEN "svc" ELSE "web",
                         version |-> IF d[r] = "svc" THEN "2.0.0" ELSE "3.1.0"]]
          /\ fs = PairProjects @@ (Cwd :> DirEntry)
                  @@ (IF stale[1] THEN StaleWorkspace(n[1], pids[1]) ELSE <<>>)
                  @@ (IF stale[2] THEN StaleWorkspace(n[2], pids[2]) ELSE <<>>)
    /\ pc = [r \in Runs |-> "mktemp"]
    /\ temp_dir = [r \in Runs |-> <<>>]
    /\ project_dir = [r \in Runs |-> NONE]
    /\ args = <<>>
    /\ project_type = NONE
    /\ dirCreated = FALSE
    /\ log = <<>>
    /\ container = "none"
    /\ service_name = NONE
    /\ version = NONE
    /\ err = NONE
    /\ exit_code = 0
    /\ err_args = <<>>
    /\ out = <<>>
    /\ zipper_arg = NONE

\* run r moves from one position to another, or ends in an io::Error there
PairMove(r, from, to, f) ==
    /\ pc[r] = from
    /\ \/ pc' = [pc EXCEPT ![r] = to] /\ fs' = f
       \/ pc' = [pc EXCEPT ![r] = "error"] /\ fs' = fs
    /\ UNCHANGED <<input, out, zipper_arg, args, project_type, dirCreated, log, container,
                   service_name, version, err, exit_code, err_args>>

\* lines 233-238: the name of the workspace; a directory of that name is removed
PairRemove(r) ==
    /\ PairMove(r, "mktemp", "create",
                IF Exists(fs, WorkspaceOf(r)) THEN RemoveDirAll(fs, WorkspaceOf(r)) ELSE fs)
    /\ temp_dir' = [temp_dir EXCEPT ![r] = WorkspaceOf(r)]
    /\ UNCHANGED project_dir

\* line 240
PairCreate(r) ==
    /\ PairMove(r, "create", "scripts", CreateDirAll(fs, temp_dir[r]))
    /\ UNCHANGED <<temp_dir, project_dir>>

\* lines 242-243
PairScripts(r) ==
    /\ PairMove(r, "scripts", "stage", copy_scripts_to_temp(fs, temp_dir[r]))
    /\ UNCHANGED <<temp_dir, project_dir>>

\* lines 245-291
PairStage(r) ==
    /\ PairMove(r, "stage", "dockerfile",
                IF input[r].project_type = "foxx-service"
                THEN StageWrapper(fs, input[r].project_home, temp_dir[r], input[r].mount_path)
                ELSE StageFlat(fs, input[r].project_home, temp_dir[r]))
    /\ project_dir' = [project_dir EXCEPT ![r] =
                          IF pc'[r] = "error" THEN @
                          ELSE IF input[r].project_type = "foxx-service" THEN "wrapper"
                          ELSE FileName(input[r].project_home)]
    /\ UNCHANGED temp_dir

\* lines 293-318
PairDockerfile(r) ==
    /\ PairMove(r, "dockerfile", IF input[r].make_tar_gz THEN "cp" ELSE "charts",
                WriteFile(fs, Join(temp_dir[r], "Dockerfile"),
                          IF input[r].project_type = "python"
                          THEN modify_dockerfile_python(DockerfileTemplate, input[r].base_image,
                                                        project_dir[r], input[r].entrypoint,
                                                        input[r].port,
                                                        extract_python_version(input[r].base_image))
                          ELSE modify_dockerfile_nodejs(DockerfileNodejsTemplate,
                                                        input[r].base_image, project_dir[r],
                                                        input[r].port)))
    /\ UNCHANGED <<temp_dir, project_dir>>

\* lines 402-411: docker cp writes the archive into the workspace
PairSnapshot(r) ==
    /\ PairMove(r, "cp", "charts", WriteFile(fs, Join(temp_dir[r], "project.tar.gz"), <<"archive">>))
    /\ UNCHANGED <<temp_dir, project_dir>>

\* lines 455-458
PairCharts(r) ==
    /\ PairMove(r, "charts", "package",
                copy_and_replace_charts(fs, Join(temp_dir[r], input[r].service_name),
                                        input[r].service_name, input[r].version, input[r].port,
                                        input[r].image_name))
    /\ UNCHANGED <<temp_dir, project_dir>>

\* lines 472-481: helm package writes the chart archive into the workspace
PairPackage(r) ==
    /\ PairMove(r, "package", "done",
                WriteFile(fs, Join(temp_dir[r], input[r].service_name \o "-" \o input[r].version
                                                \o ".tgz"),
                          <<"chart archive">>))
    /\ UNCHANGED <<temp_dir, project_dir>>

NextPair ==
    \E r \in Runs :
        \/ PairRemove(r)
        \/ PairCreate(r)
        \/ PairScripts(r)
        \/ PairStage(r)
        \/ PairDockerfile(r)
        \/ PairSnapshot(r)
        \/ PairCharts(r)
        \/ PairPackage(r)

SpecPair == InitPair /\ [][NextPair]_vars

----------------------------------------------------------------------------
\* copy_dir_recursive one file system call at a time, for the flat staging of
\* lines 282-290 with the working directory outside or inside the project home.
\* input is the call stack: one frame per active call, with the names its
\* read_dir iterator has still to return; out counts what the copy has done.

\* longest path, in components, the file system accepts (ENAMETOOLONG beyond)
MaxPathLen == 9

StageHome == HomeOf("svc")
\* std::env::current_dir(): beside the project home, the project home, a
\* directory of the project home
StageCwds == {Cwd, StageHome, Join(StageHome, "src")}

\* a project with a source directory and a virtual environment
StageTree(venv) ==
    [p \in {<<"projects">>, StageHome, Join(StageHome, "src")}
           \cup (IF venv THEN {Join(StageHome, ".venv")} ELSE {}) |-> DirEntry]
    @@ [p \in {Join(StageHome, "main.py")}
              \cup (IF venv THEN {Join(Join(StageHome, ".venv"), "lib.py")} ELSE {})
            |-> FileEntry(<<FileName(p)>>, DefaultMode)]

\* the state main() is in at line 282: workspace created, scripts written
InitStage ==
    /\ \E cwd \in StageCwds, venv \in BOOLEAN :
          /\ temp_dir = Join(cwd, TempDirName("svc"))
          /\ fs = copy_scripts_to_temp(
                      CreateDirAll(StageTree(venv) @@ (Cwd :> DirEntry), temp_dir), temp_dir)
    /\ args = [name |-> "svc", project_home |-> StageHome, base_image |-> DefaultBaseImage,
               port |-> 8080, image_name |-> "img", push |-> FALSE, entrypoint |-> "main.py",
               make_tar_gz |-> FALSE, mount_path |-> NONE]
    /\ pc = "stage"
    /\ project_type = "python"
    /\ project_dir = NONE
    /\ dirCreated = TRUE
    /\ log = <<>>
    /\ container = "none"
    /\ service_name = NONE
    /\ version = NONE
    /\ err = NONE
    /\ exit_code = 0
    /\ err_args = <<>>
    /\ input = <<>>
    /\ out = [copied |-> 0, entries |-> 0]
    /\ zipper_arg = NONE

StageFrame == UNCHANGED <<zipper_arg, args, project_type, project_dir, temp_dir, dirCreated, log,
                          container, service_name, version, exit_code>>

\* lines 612-616: a call of copy_dir_recursive(src, dst) up to its read_dir;
\* the path of dst may be longer than the file system takes
Enter(src, dst) ==
    IF Len(dst) > MaxPathLen
    THEN /\ FailWith("io error", <<"File name too long">>)
         /\ UNCHANGED <<fs, input, out>>
    ELSE /\ pc' = "copying" /\ UNCHANGED <<err, err_args>>
         /\ fs' = IF ~Exists(fs, dst) THEN CreateDirAll(fs, dst) ELSE fs
         /\ input' = Append(input, [src |-> src, dst |-> dst, todo |-> ReadDir(fs', src)])
         /\ out' = IF input = <<>>
                   THEN [copied |-> 0,
                         entries |-> Cardinality({p \in DOMAIN fs' : IsPrefix(src, p)})]
                   ELSE [out EXCEPT !.copied = @ + 1]

\* lines 282-289: the call main() makes
StageEnter ==
    /\ pc = "stage"
    /\ Enter(args.project_home, Join(temp_dir, FileName(args.project_home)))
    /\ StageFrame

\* the next entry of the innermost read_dir, in whatever order it returns them
NextEntry(n) ==
    /\ pc = "copying" /\ input # <<>>
    /\ n \in input[Len(input)].todo
Taken(n) == [input EXCEPT ![Len(input)].todo = @ \ {n}]

\* lines 622-624
CopySkip ==
    /\ \E n \in Excluded :
          /\ NextEntry(n)
          /\ input' = Taken(n)
    /\ UNCHANGED <<fs, out, pc, err, err_args>>
    /\ StageFrame

\* lines 628-632: a file, or fs::copy fails
CopyFileStep ==
    /\ pc = "copying" /\ input # <<>>
    /\ \E n \in input[Len(input)].todo \ Excluded :
          LET path == Join(input[Len(input)].src, n)
              dest_path == Join(input[Len(input)].dst, n)
          IN /\ NextEntry(n) /\ ~IsDir(fs, path)
             /\ \/ /\ fs' = CopyFile(fs, path, dest_path)
                   /\ input' = Taken(n)
                   /\ out' = [out EXCEPT !.copied = @ + 1]
                   /\ UNCHANGED <<pc, err, err_args>>
                \/ /\ FailWith("io error", <<"copy">>)
                   /\ UNCHANGED <<fs, input, out>>
    /\ StageFrame

\* lines 628-630: a directory, copied by a call of its own
CopyEnterDir ==
    /\ pc = "copying" /\ input # <<>>
    /\ \E n \in input[Len(input)].todo \ Excluded :
          LET path == Join(input[Len(input)].src, n)
              dest_path == Join(input[Len(input)].dst, n)
              taken == Taken(n)
          IN /\ NextEntry(n) /\ IsDir(fs, path)
             /\ IF Len(dest_path) > MaxPathLen
                THEN /\ FailWith("io error", <<"File name too long">>)
                     /\ UNCHANGED <<fs, input, out>>
                ELSE /\ UNCHANGED <<pc, err, err_args>>
                     /\ fs' = IF ~Exists(fs, dest_path) THEN CreateDirAll(fs, dest_path) ELSE fs
                     /\ input' = Append(taken, [src |-> path, dst |-> dest_path,
                                                todo |-> ReadDir(fs', path)])
                     /\ out' = [out EXCEPT !.copied = @ + 1]
    /\ StageFrame

\* line 635: the iterator is at its end, the call returns; line 290 after the
\* outermost call
CopyReturn ==
    /\ pc = "copying" /\ input # <<>>
    /\ input[Len(input)].todo = {}
    /\ input' = SubSeq(input, 1, Len(input) - 1)
    /\ pc' = IF Len(input) = 1 THEN "staged" ELSE pc
    /\ UNCHANGED <<fs, out, err, err_args>>
    /\ StageFrame

NextStage ==
    \/ StageEnter
    \/ CopySkip
    \/ CopyFileStep
    \/ CopyEnterDir
    \/ CopyReturn

SpecStage == InitStage /\ [][NextStage]_vars

----------------------------------------------------------------------------
\* Vocabulary of the properties

HomeHas(name) == Exists(fs, Join(args.project_home, name))
HomeExists == Exists(fs, args.project_home)

Invocations(cmd) == {i \in DOMAIN log : log[i].cmd = cmd}
WasInvoked(cmd) == Invocations(cmd) # {}
Succeeded(cmd) == \E i \in Invocations(cmd) : log[i].code = 0
LastInvoked(cmd, code) == log # <<>> /\ log[Len(log)] = [cmd |-> cmd, code |-> code]

\* the fixed order of the external commands
StepOrder == <<"build", "push", "run", "wait", "inspect", "cp", "rm", "lint", "package">>
Rank(cmd) == CHOOSE i \in DOMAIN StepOrder : StepOrder[i] = cmd
SnapshotSteps == {"run", "wait", "inspect", "cp", "rm"}
ChartSteps == {"lint", "package"}

\* whether a step of the order is part of this run
Applicable(cmd) ==
    IF cmd = "push" THEN args.push
    ELSE IF cmd \in SnapshotSteps THEN args.make_tar_gz
    ELSE TRUE

\* C1: the project type is decided by the three marker files, first match wins:
\* pyproject.toml gives python whatever else is there, else package.json with
\* services.json gives foxx, else package.json gives foxx-service, else (also with
\* services.json alone) the run ends in the classification error.
C1_DecisionTable ==
    (HomeExists /\ pc \notin {"start", "detect"}) =>
        LET py == HomeHas("pyproject.toml")
            pk == HomeHas("package.json")
            sv == HomeHas("services.json")
        IN /\ py => project_type = "python"
           /\ (~py /\ pk /\ sv) => project_type = "foxx"
           /\ (~py /\ pk /\ ~sv) => project_type = "foxx-service"
           /\ (~py /\ ~pk) => /\ project_type = NONE
                              /\ pc = "error"
                              /\ err = "Could not detect project type"
           /\ (py \/ pk) => err # "Could not detect project type"

\* services.json alone is a classification error; all three markers give python
C1_Witness ==
    /\ pc = "error" /\ err = "Could not detect project type"
    /\ HomeHas("services.json") /\ ~HomeHas("package.json") /\ ~HomeHas("pyproject.toml")

\* C2: the external commands are invoked in the order build, push, snapshot
\* extraction, lint, package; push and snapshot only with their flag; a step is
\* invoked only after every applicable earlier step has returned zero.
C2_FixedOrder ==
    \A j \in DOMAIN log :
        /\ Applicable(log[j].cmd)
        /\ \A cmd \in {StepOrder[k] : k \in 1..(Rank(log[j].cmd) - 1)} :
              Applicable(cmd) => \E i \in 1..(j - 1) : log[i] = [cmd |-> cmd, code |-> 0]
        /\ \A i \in 1..(j - 1) : Rank(log[i].cmd) < Rank(log[j].cmd)

\* a full run: all nine commands were invoked
C2_Witness ==
    pc = "done" /\ args.push /\ args.make_tar_gz /\ Len(log) = Len(StepOrder)

\* C3: a non-zero exit status of any external command ends the run in error and
\* is the last command of the run; after a failed build push is never invoked
\* and the error names the build.
C3_FailFast ==
    /\ \A i \in DOMAIN log :
          log[i].code # 0 => (i = Len(log) /\ pc = "error")
    /\ (\E i \in Invocations("build") : log[i].code # 0) =>
          (~WasInvoked("push") /\ err = "Docker build failed")

\* the build failed in a run that was asked to push
C3_Witness ==
    /\ args.push /\ pc = "error"
    /\ \E code \in ExitCodes \ {0} : LastInvoked("build", code)

\* C4: with the snapshot flag set the snapshot steps follow a successful build
\* (and push, if any) whether or not push was requested, and a run that gets to
\* the chart has invoked run, wait, inspect, cp, rm once each, in this order,
\* before any chart step.
C4_SnapshotSequence ==
    /\ (args.make_tar_gz /\ (LastInvoked("push", 0)
                             \/ (LastInvoked("build", 0) /\ ~args.push))) =>
          (pc = "run" \/ (pc = "error" /\ err = "io error"))
    /\ (args.make_tar_gz /\ (pc \in {"read_info", "charts", "lint", "package", "done"}
                             \/ \E cmd \in ChartSteps : WasInvoked(cmd))) =>
          /\ \A cmd \in SnapshotSteps : Cardinality(Invocations(cmd)) = 1
          /\ \E i \in DOMAIN log :
                /\ i + 4 \in DOMAIN log
                /\ [k \in 0..4 |-> log[i + k]] =
                      [k \in 0..4 |-> [cmd |-> StepOrder[3 + k], code |-> 0]]
                /\ \A j \in DOMAIN log : log[j].cmd \in ChartSteps => j > i + 4
          /\ exit_code = 0

\* the snapshot was taken in a run that did not push
C4_Witness ==
    pc = "done" /\ args.make_tar_gz /\ ~args.push /\ WasInvoked("rm") /\ WasInvoked("package")

\* C5: when wait and inspect return zero and the container's exit code is not
\* zero the run ends in error: no cp, no chart step, no success.
C5_ContainerExitCode ==
    (Succeeded("wait") /\ Succeeded("inspect") /\ exit_code # 0) =>
        /\ pc = "error"
        /\ err = "Container exited with code"
        /\ ~WasInvoked("cp")
        /\ \A cmd \in ChartSteps : ~WasInvoked(cmd)

C5_Witness ==
    LastInvoked("inspect", 0) /\ Succeeded("wait") /\ exit_code # 0 /\ pc = "error"

\* C6: once docker rm has returned zero the container of the run is gone, so it
\* is gone in every successful run that took a snapshot; no chart step runs while
\* the container exists; a container is left behind at the end of a run only when
\* the run failed at wait, inspect, the exit-code check, cp or rm.
C6_NoDanglingContainer ==
    /\ Succeeded("rm") => container = "removed"
    /\ (pc = "done" /\ args.make_tar_gz) => container = "removed"
    /\ (pc \in {"read_info", "charts", "lint", "package"}
        \/ \E cmd \in ChartSteps : WasInvoked(cmd)) => container \in {"none", "removed"}
    /\ (pc \in {"done", "error"} /\ container \in {"running", "exited"}) =>
          /\ pc = "error"
          /\ \/ err \in {"Failed to wait for container",
                         "Failed to inspect container exit code",
                         "Container exited with code",
                         "Failed to copy project.tar.gz from container",
                         "Failed to remove container"}
             \/ /\ err = "io error"
                /\ \E cmd \in {"run", "wait", "inspect", "cp"} : LastInvoked(cmd, 0)

\* a successful run with a snapshot: the container was started and removed
C6_Witness ==
    pc = "done" /\ args.make_tar_gz /\ Succeeded("run") /\ Succeeded("rm")
    /\ container = "removed"

\* C7: the run succeeds only with the archive <service name>-<version>.tgz in the
\* workspace after helm package returned zero; a zero status without the archive
\* ends in an error that is not the error of a failed helm package.
C7_ArtifactCheck ==
    LET archive == Join(temp_dir, service_name \o "-" \o version \o ".tgz")
    IN /\ pc = "done" => (LastInvoked("package", 0) /\ Exists(fs, archive))
       /\ (LastInvoked("package", 0) /\ ~Exists(fs, archive)) =>
             (pc = "error" /\ err = "Helm chart file not found")
       /\ (\E i \in Invocations("package") : log[i].code # 0) =>
             (pc = "error" /\ err = "Helm package failed")
       /\ "Helm chart file not found" # "Helm package failed"

\* helm package returned zero and left no archive
C7_Witness ==
    /\ LastInvoked("package", 0) /\ pc = "error" /\ err = "Helm chart file not found"
    /\ ~Exists(fs, Join(temp_dir, service_name \o "-" \o version \o ".tgz"))

\* the (name, version) pair in the manifest of the project type, read off the file
ManifestField(file, key) ==
    GetStr(ParseDoc(fs[Join(args.project_home, file)].content).fields, key)
ManifestName ==
    IF project_type = "python" THEN ManifestField("pyproject.toml", "project.name")
    ELSE ManifestField("package.json", "name")
ManifestVersion ==
    IF project_type = "python" THEN ManifestField("pyproject.toml", "project.version")
    ELSE IF ManifestField("package.json", "version") = NONE THEN "1.0.0"
    ELSE ManifestField("package.json", "version")

\* C8: the chart is rendered under <workspace>/<manifest name> and the archive
\* looked for is <manifest name>-<manifest version>.tgz, whatever the project
\* name of the run is.
C8_ChartNamedByManifest ==
    /\ pc \in {"lint", "package", "done"} =>
          /\ \A i \in DOMAIN CHART_FILES :
                IsFile(fs, Join(temp_dir, ManifestName) \o CHART_FILES[i].path)
          /\ args.name # ManifestName =>
                ~Exists(fs, Join(Join(temp_dir, args.name), "Chart.yaml"))
    /\ pc = "done" =>
          /\ Exists(fs, Join(temp_dir, ManifestName \o "-" \o ManifestVersion \o ".tgz"))
          /\ args.name # ManifestName =>
                ~Exists(fs, Join(temp_dir, args.name \o "-" \o ManifestVersion \o ".tgz"))

\* manifest name svc, version 2.0.0, project name app: the archive is svc-2.0.0.tgz
C8_Witness ==
    /\ pc = "done" /\ args.name = "app" /\ service_name = "svc" /\ version = "2.0.0"
    /\ Exists(fs, Join(temp_dir, "svc-2.0.0.tgz"))
    /\ IsFile(fs, temp_dir \o <<"svc", "Chart.yaml">>)

\* C9: from the moment the run has created its workspace directory the directory
\* exists, in every state and at the end of the run, whatever the outcome.
C9_WorkspaceRetained ==
    dirCreated => IsDir(fs, temp_dir)

\* runs that ended after creating the workspace: in success and in errors of
\* each kind
C9_Witness ==
    /\ dirCreated /\ IsDir(fs, temp_dir)
    /\ pc = "error" /\ err = "Missing 'project.version' in pyproject.toml"

\* the root of the staged copy of the project
StagedRoot ==
    IF project_type = "foxx-service" THEN temp_dir \o <<"wrapper", FileName(args.project_home)>>
    ELSE Join(temp_dir, FileName(args.project_home))

\* C10: after copy_dir_recursive nothing in the staged copy lies at or below a
\* path with a component named .venv or node_modules, at any depth.
C10_StagingExclusion ==
    (pc \notin {"copy", "start", "detect", "configure", "mktemp", "scripts", "stage"}
     /\ project_dir # NONE) =>
        \A p \in DOMAIN fs :
            IsPrefix(StagedRoot, p) =>
                \A i \in (Len(StagedRoot) + 1)..Len(p) : p[i] \notin {".venv", "node_modules"}

\* a source with a file inside an excluded directory one level down, copied
C10_Witness ==
    /\ pc = "copied"
    /\ IsFile(fs, SrcRoot \o <<"src", "node_modules", "src">>)
    /\ IsDir(fs, Join(DstRoot, "src"))
    /\ ~Exists(fs, DstRoot \o <<"src", "node_modules">>)

\* what a manifest file of the project home holds under a key
ManifestPath(file) == Join(args.project_home, file)
ManifestParses(file) ==
    Exists(fs, ManifestPath(file)) /\ Len(fs[ManifestPath(file)].content) % 3 = 0
HasKey(file, key) ==
    \E i \in 1..(Len(fs[ManifestPath(file)].content) \div 3) :
        fs[ManifestPath(file)].content[3 * i - 2] = key
StringAt(file, key, val) ==
    \E i \in 1..(Len(fs[ManifestPath(file)].content) \div 3) :
        /\ fs[ManifestPath(file)].content[3 * i - 2] = key
        /\ fs[ManifestPath(file)].content[3 * i - 1] = "str"
        /\ fs[ManifestPath(file)].content[3 * i] = val

\* the reader has returned: a pair, or an error and no pair
MetaPair(n, v) == pc = "charts" /\ service_name = n /\ version = v
MetaError == pc = "error" /\ err # NONE /\ service_name = NONE /\ version = NONE

\* C11: package.json with a name and no version field gives (name, "1.0.0") and
\* a string version is returned as it is; pyproject.toml without project.version
\* is an error; a missing manifest file or a missing name is an error in both
\* formats, and an error never comes with a pair.
C11_MetadataReading ==
    (pc # "read_info") =>
        /\ pc \in {"charts", "error"}
        /\ pc = "error" => MetaError
        /\ project_type # "python" =>
              /\ ~Exists(fs, ManifestPath("package.json")) => MetaError
              /\ (ManifestParses("package.json") /\ ~HasKey("package.json", "name")) => MetaError
              /\ (ManifestParses("package.json") /\ StringAt("package.json", "name", "web")) =>
                    /\ ~HasKey("package.json", "version") => MetaPair("web", "1.0.0")
                    /\ StringAt("package.json", "version", "3.1.0") => MetaPair("web", "3.1.0")
        /\ project_type = "python" =>
              /\ ~Exists(fs, ManifestPath("pyproject.toml")) => MetaError
              /\ (ManifestParses("pyproject.toml") /\ ~HasKey("pyproject.toml", "project.name"))
                    => MetaError
              /\ (ManifestParses("pyproject.toml") /\ ~HasKey("pyproject.toml", "project.version"))
                    => MetaError
              /\ (ManifestParses("pyproject.toml")
                  /\ StringAt("pyproject.toml", "project.name", "svc")
                  /\ StringAt("pyproject.toml", "project.version", "2.0.0"))
                    => MetaPair("svc", "2.0.0")

\* package.json with a name and no version has been read
C11_Witness ==
    /\ project_type = "foxx" /\ MetaPair("web", "1.0.0")
    /\ ManifestParses("package.json") /\ ~HasKey("package.json", "version")

\* the marker "py" in a name, and the digits that follow its first occurrence
IsDigit(c) == c \in {"0", "1", "2", "3", "4", "5", "6", "7", "8", "9"}
MarkerAt(b, i) == i + 1 <= Len(b) /\ b[i] = "p" /\ b[i + 1] = "y"
HasMarker(b) == \E i \in 1..Len(b) : MarkerAt(b, i)
FirstMarker(b) == CHOOSE i \in 1..Len(b) : MarkerAt(b, i) /\ \A j \in 1..(i - 1) : ~MarkerAt(b, j)
RunLength(b) ==
    CHOOSE n \in 0..Len(b) :
        /\ FirstMarker(b) + 1 + n <= Len(b)
        /\ \A k \in 1..n : IsDigit(b[FirstMarker(b) + 1 + k])
        /\ (FirstMarker(b) + 2 + n <= Len(b)) => ~IsDigit(b[FirstMarker(b) + 2 + n])
DigitRun(b) == SubSeq(b, FirstMarker(b) + 2, FirstMarker(b) + 1 + RunLength(b))

\* C12: a name whose marker "py" is followed by the digits 13 gives 3.13; a name
\* whose marker is followed by no digit gives the default 3.13; a name without the
\* marker gives the default 3.13.  The marker is its first occurrence in the name.
C12_VersionCases ==
    (pc = "versioned") =>
        /\ ~HasMarker(input) => out = <<"3", ".", "1", "3">>
        /\ (HasMarker(input) /\ DigitRun(input) = <<>>) => out = <<"3", ".", "1", "3">>
        /\ (HasMarker(input) /\ DigitRun(input) = <<"1", "3">>) => out = <<"3", ".", "1", "3">>

\* "bpy13" has been converted
C12_Witness ==
    pc = "versioned" /\ input = <<"b", "p", "y", "1", "3">> /\ out = <<"3", ".", "1", "3">>

\* C13 as stated: the version is the first digit of the run, a dot, the rest
C13_FirstDigitDotRest ==
    (pc = "versioned" /\ HasMarker(input) /\ DigitRun(input) # <<>>) =>
        out = <<DigitRun(input)[1], ".">> \o Tail(DigitRun(input))

\* C13, amended: for every name whose marker is followed by a non-empty digit
\* run, the version is "3", a dot, and the whole digit run.
C13_ThreeDotRun ==
    (pc = "versioned" /\ HasMarker(input) /\ DigitRun(input) # <<>>) =>
        out = <<"3", ".">> \o DigitRun(input)

\* "py31b": the run 31 gives 3.31
C13_Witness ==
    /\ pc = "versioned" /\ input = <<"p", "y", "3", "1", "b">>
    /\ out = <<"3", ".", "3", "1">>

\* the tokens a renderer has a value for, with the value as the items it inserts
ValueMap(v) ==
    IF v.renderer = "python"
    THEN [t \in {"{BASE_IMAGE}", "{PROJECT_DIR}", "{PORT}", "{ENTRYPOINT}", "{PYTHON_VERSION}"} |->
            IF t = "{BASE_IMAGE}" THEN v.base_image
            ELSE IF t = "{PROJECT_DIR}" THEN <<v.dir>>
            ELSE IF t = "{PORT}" THEN <<ToString(v.port)>>
            ELSE IF t = "{ENTRYPOINT}" THEN <<v.entrypoint>>
            ELSE v.python_version]
    ELSE IF v.renderer = "nodejs"
    THEN [t \in {"{BASE_IMAGE}", "{PROJECT_DIR}", "{PORT}"} |->
            IF t = "{BASE_IMAGE}" THEN v.base_image
            ELSE IF t = "{PROJECT_DIR}" THEN <<v.dir>>
            ELSE <<ToString(v.port)>>]
    ELSE [t \in {"{SERVICE_NAME}", "{VERSION}", "{PORT}", "{IMAGE_NAME}"} |->
            IF t = "{SERVICE_NAME}" THEN <<v.name>>
            ELSE IF t = "{VERSION}" THEN <<v.ver>>
            ELSE IF t = "{PORT}" THEN <<ToString(v.port)>>
            ELSE <<v.image_name>>]

AllTokens == {"{BASE_IMAGE}", "{PROJECT_DIR}", "{PORT}", "{ENTRYPOINT}", "{PYTHON_VERSION}",
              "{SERVICE_NAME}", "{VERSION}", "{IMAGE_NAME}"}
Unsupplied(v) == AllTokens \ DOMAIN ValueMap(v)

RECURSIVE SimSubst(_, _)
\* every token of the text replaced by its value at once, the rest kept
SimSubst(text, map) ==
    IF text = <<>> THEN <<>>
    ELSE (IF Head(text) \in DOMAIN map THEN map[Head(text)] ELSE <<Head(text)>>)
         \o SimSubst(Tail(text), map)

RECURSIVE Keep(_, _)
\* the items of a text that are in a set, in their order
Keep(text, S) ==
    IF text = <<>> THEN <<>>
    ELSE (IF Head(text) \in S THEN <<Head(text)>> ELSE <<>>) \o Keep(Tail(text), S)

Range(text) == {text[i] : i \in DOMAIN text}

\* C14 as stated: the output of each renderer is the template with every token
\* replaced by its value and everything else, inserted values included, unchanged
C14_SimultaneousSubstitution ==
    pc = "rendered" => out = SimSubst(input.template, ValueMap(input))

\* C15: a token the renderer has no value for stays in the output: each of its
\* occurrences in the template is still there, and when no value brings such a
\* token with it the output has exactly the template's occurrences, in order.
C15_UnsuppliedTokensStay ==
    pc = "rendered" =>
        /\ \A t \in Unsupplied(input) :
              Len(Keep(out, {t})) >= Len(Keep(input.template, {t}))
        /\ (\A t \in DOMAIN ValueMap(input) : Range(ValueMap(input)[t]) \cap Unsupplied(input) = {})
              => Keep(out, Unsupplied(input)) = Keep(input.template, Unsupplied(input))

\* the web build file renderer met {ENTRYPOINT} and {PYTHON_VERSION} and kept them
C15_Witness ==
    /\ pc = "rendered" /\ input.renderer = "nodejs"
    /\ input.template = <<"{ENTRYPOINT}", "{PYTHON_VERSION}">>
    /\ out = <<"{ENTRYPOINT}", "{PYTHON_VERSION}">>

\* C16: a text without any token of the renderer's vocabulary is returned as it
\* is, so an output without such tokens is not changed by rendering it again.
C16_IdempotentOnResolved ==
    pc = "rendered" =>
        /\ Range(input.template) \cap DOMAIN ValueMap(input) = {} => out = input.template
        /\ Range(out) \cap DOMAIN ValueMap(input) = {}
              => RenderWith(input.renderer, out, input) = out

\* a chart template with a token was rendered to a text without tokens
C16_Witness ==
    /\ pc = "rendered" /\ input.renderer = "chart"
    /\ input.template = <<"x", "{VERSION}">> /\ input.ver = "v"
    /\ out = <<"x", "v">>

\* the external commands whose non-zero status ends the run with a step error
ExternalSteps == {"build", "push", "lint", "package"}

\* the text that names each of these steps in its error
StepMessage(cmd) ==
    CASE cmd = "build" -> "Docker build failed"
      [] cmd = "push" -> "Docker push failed"
      [] cmd = "lint" -> "Helm lint failed"
      [] cmd = "package" -> "Helm package failed"

\* the run was ended by the non-zero status of the last command invoked
EndedByStatus(cmd, code) ==
    pc = "error" /\ code # 0 /\ LastInvoked(cmd, code)

\* C17 as stated: the error of a build, push, chart lint or chart package that
\* returned a non-zero status names the step and carries that exit code
C17_StepNameAndExitCode ==
    \A cmd \in ExternalSteps, code \in ExitCodes :
        EndedByStatus(cmd, code) =>
            /\ err = StepMessage(cmd)
            /\ ToString(code) \in Range(err_args)

\* the two staging layouts, read off the workspace
WrapperLayout ==
    /\ IsFile(fs, temp_dir \o <<"wrapper", FileName(args.project_home), "main.py">>)
    /\ IsFile(fs, temp_dir \o <<"wrapper", "services.json">>)
FlatLayout ==
    /\ IsFile(fs, temp_dir \o <<FileName(args.project_home), "main.py">>)
    /\ ~Exists(fs, Join(temp_dir, "wrapper"))

\* the fixed text of a build file: what is left of it without tokens and values
FixedText(template) == Keep(template, Range(template) \ AllTokens)
BuildFileText ==
    Keep(fs[Join(temp_dir, "Dockerfile")].content,
         Range(DockerfileTemplate \o DockerfileNodejsTemplate) \ AllTokens)

\* the layout, the build file template and the manifest reader of the run all
\* go with the recorded project type
TypeConsistent ==
    /\ dirCreated => project_type \in {"python", "foxx", "foxx-service"}
    /\ project_dir # NONE =>
          /\ WrapperLayout <=> project_type = "foxx-service"
          /\ FlatLayout <=> project_type \in {"python", "foxx"}
    /\ (dirCreated /\ Exists(fs, Join(temp_dir, "Dockerfile"))) =>
          BuildFileText = IF project_type = "python" THEN FixedText(DockerfileTemplate)
                          ELSE FixedText(DockerfileNodejsTemplate)
    /\ service_name # NONE =>
          IF project_type = "python"
          THEN /\ service_name = ManifestField("pyproject.toml", "project.name")
               /\ version = ManifestField("pyproject.toml", "project.version")
          ELSE /\ service_name = ManifestField("package.json", "name")
               /\ version \in {ManifestField("package.json", "version"), "1.0.0"}

\* C18: the project type is set once, before the workspace is created, and never
\* changes; in every state the layout of the staged copy (flat for python and
\* foxx, wrapper exactly for foxx-service), the template of the build file (the
\* python one for python, the nodejs one for foxx and foxx-service) and the
\* manifest read (pyproject.toml for python, package.json otherwise) are those
\* of that type.
C18_OneTypePerRun ==
    /\ []TypeConsistent
    /\ [][project_type # NONE => project_type' = project_type]_vars

\* a python project that also has a package.json went through with the flat
\* layout, the python build file and the names of pyproject.toml
C18_Witness ==
    /\ pc = "done" /\ project_type = "python" /\ HomeHas("package.json")
    /\ FlatLayout /\ service_name = "svc" /\ version = "2.0.0"
    /\ "CMD " \in Range(fs[Join(temp_dir, "Dockerfile")].content)

\* the directory name of the project home
HomeName == FileName(args.project_home)
WrapperDir == Join(temp_dir, "wrapper")

\* every entry of the project home outside .venv and node_modules is under dst,
\* a directory as a directory and a file as a file of the same content
HoldsProjectCopy(dst) ==
    \A p \in DOMAIN fs :
        (/\ IsPrefix(args.project_home, p)
         /\ \A i \in (Len(args.project_home) + 1)..Len(p) : p[i] \notin {".venv", "node_modules"})
        => LET q == dst \o SubSeq(p, Len(args.project_home) + 1, Len(p))
           IN /\ Exists(fs, q) /\ fs[q].kind = fs[p].kind
              /\ IsFile(fs, p) => fs[q].content = fs[p].content

\* the item of a text that follows the first occurrence of an item
ItemAfter(text, item) ==
    text[(CHOOSE i \in DOMAIN text : text[i] = item /\ \A j \in 1..(i - 1) : text[j] # item) + 1]

\* the project directory named in the build file and given to the snapshot helper
UsedProjectDir(d) ==
    /\ project_dir = d
    /\ (dirCreated /\ Exists(fs, Join(temp_dir, "Dockerfile"))) =>
          ItemAfter(fs[Join(temp_dir, "Dockerfile")].content, "COPY ") = d
    /\ WasInvoked("run") => zipper_arg = d

\* C19: once a foxx-service project with home directory name D and mount path M
\* is staged, wrapper/D holds the project copy, wrapper/package.json is the
\* project's package.json, wrapper/services.json is a list of one object with
\* mount M and basePath D, and the project directory of the build file and of
\* the snapshot helper is "wrapper"; for python and foxx projects it is D.
C19_SingleServiceStaging ==
    project_dir # NONE =>
        IF project_type = "foxx-service"
        THEN /\ HoldsProjectCopy(Join(WrapperDir, HomeName))
             /\ IsFile(fs, Join(WrapperDir, "package.json"))
             /\ fs[Join(WrapperDir, "package.json")].content
                   = fs[Join(args.project_home, "package.json")].content
             /\ IsFile(fs, Join(WrapperDir, "services.json"))
             /\ fs[Join(WrapperDir, "services.json")].content
                   = <<"[", "{", "\"mount\": \"", args.mount_path, "\",",
                       "\"basePath\": \"", HomeName, "\"", "}", "]">>
             /\ UsedProjectDir("wrapper")
        ELSE UsedProjectDir(HomeName)

\* the single service Proj mounted at /itz went through the snapshot
C19_Witness ==
    /\ pc = "done" /\ project_type = "foxx-service" /\ HomeName = "Proj"
    /\ args.mount_path = "/itz" /\ zipper_arg = "wrapper"
    /\ fs[Join(WrapperDir, "services.json")].content[4] = "/itz"
    /\ fs[Join(WrapperDir, "services.json")].content[7] = "Proj"
    /\ IsFile(fs, WrapperDir \o <<"Proj", "src", "app.py">>)

\* a helper script of the workspace is the embedded one, executable
HelperInPlace(i) ==
    LET p == temp_dir \o <<"scripts", SCRIPT_FILES[i].path>>
    IN /\ IsFile(fs, p)
       /\ fs[p].content = SCRIPT_FILES[i].content
       /\ fs[p].mode = ExecMode

\* C20 as stated: when the build is about to be invoked the workspace holds the
\* three helper scripts with the embedded content and mode 0755, the staged
\* project copy and the rendered build file, for every project.
C20_HelpersAtBuild ==
    pc = "build" =>
        /\ \A i \in DOMAIN SCRIPT_FILES : HelperInPlace(i)
        /\ HoldsProjectCopy(StagedRoot)
        /\ IsFile(fs, Join(temp_dir, "Dockerfile"))

\* what the file system holds at and below a path
Below(f, root) == [p \in {q \in DOMAIN f : IsPrefix(root, q)} |-> f[p]]

\* C21: two runs with different project names have different workspaces, neither
\* inside the other, and no step of a run creates, changes or removes anything
\* at or below the workspace of the other run, in any interleaving.
C21_DisjointWorkspaces ==
    /\ [](\A r \in Runs : /\ ~IsPrefix(WorkspaceOf(r), WorkspaceOf(Other(r)))
                          /\ temp_dir[r] \in {<<>>, WorkspaceOf(r)})
    /\ [][\A r \in Runs :
            pc'[r] # pc[r] => Below(fs', WorkspaceOf(Other(r))) = Below(fs, WorkspaceOf(Other(r)))]_vars

\* both runs are through, on the same project home, each with its own workspace
\* and archive, after run 1 removed a directory left under its workspace's name
C21_Witness ==
    /\ pc = [r \in Runs |-> "done"]
    /\ input[1].project_home = input[2].project_home
    /\ \A r \in Runs : IsFile(fs, Join(WorkspaceOf(r), "svc-2.0.0.tgz"))
    /\ \A r \in Runs : ~Exists(fs, Join(WorkspaceOf(r), "old.txt"))

\* C22: no external command is invoked a second time in a run, whether its
\* first invocation returned zero or not.
C22_NoRetries ==
    \A i, j \in DOMAIN log : log[i].cmd = log[j].cmd => i = j

\* a run that went through all nine commands, each of them once
C22_Witness ==
    pc = "done" /\ {log[i].cmd : i \in DOMAIN log} = Range(StepOrder) /\ Len(log) = 9

\* the names this run writes directly under its workspace
OwnEntries ==
    {"scripts", "Dockerfile", "project.tar.gz", HomeName, "wrapper"}
    \cup (IF service_name = NONE THEN {}
          ELSE {service_name, service_name \o "-" \o version \o ".tgz"})

\* C23: a directory of the workspace's name that is there when the run starts
\* does not end the run; it is removed and created again, so the workspace is
\* empty when the scripts are about to be written and from then on holds
\* nothing of the earlier directory, only what this run wrote.
C23_StaleWorkspaceReplaced ==
    /\ pc = "scripts" => Below(fs, temp_dir) = (temp_dir :> DirEntry)
    /\ dirCreated =>
          /\ ~Exists(fs, Join(temp_dir, "old.txt"))
          /\ \A p \in DOMAIN fs :
                (IsPrefix(temp_dir, p) /\ p # temp_dir) => p[Len(temp_dir) + 1] \in OwnEntries

\* the working directory still holds the directories earlier runs left under
\* other names, and this run is through with a workspace of its own
C23_Witness ==
    /\ pc = "done" /\ args.name = "app"
    /\ Exists(fs, Cwd \o <<TempDirName("svc"), "old.txt">>)
    /\ ~Exists(fs, Join(temp_dir, "old.txt"))
    /\ IsFile(fs, Join(temp_dir, "Dockerfile"))

SnapshotArchive == Join(temp_dir, "project.tar.gz")

\* C24: with the snapshot flag set, a run that is past the snapshot steps, and so
\* every run that ends in success, has project.tar.gz in its workspace; when
\* docker cp returned zero and the file is not there the run is at the removal
\* of the container or has ended in an error, and neither helm lint nor helm
\* package has been invoked nor any chart file rendered.
C24_SnapshotArchiveChecked ==
    args.make_tar_gz =>
        /\ pc \in {"read_info", "charts", "lint", "package", "done"} => IsFile(fs, SnapshotArchive)
        /\ (Succeeded("cp") /\ ~Exists(fs, SnapshotArchive)) =>
              /\ pc \in {"rm", "error"}
              /\ ~WasInvoked("lint") /\ ~WasInvoked("package")
              /\ service_name = NONE

\* docker cp and docker rm returned zero, the archive is not there, the run
\* ended in the error about it
C24_Witness ==
    /\ args.make_tar_gz /\ Succeeded("cp") /\ LastInvoked("rm", 0)
    /\ ~Exists(fs, SnapshotArchive)
    /\ pc = "error" /\ err = "project.tar.gz not found"

ClassificationError == pc = "error" /\ err = "Could not detect project type"

\* C25: up to and including the classification nothing is written, created or
\* invoked, so the project home is as it was; a run that ends in the
\* classification error, which it does when neither pyproject.toml nor
\* package.json is there, has no workspace and has invoked no command.
C25_ClassificationPure ==
    /\ [](ClassificationError =>
             /\ ~HomeHas("pyproject.toml") /\ ~HomeHas("package.json")
             /\ ~dirCreated /\ temp_dir = <<>> /\ log = <<>>
             /\ \A n \in RunNames : ~Exists(fs, Cwd \o <<TempDirName(n), "scripts">>))
    /\ [][(pc \in {"start", "detect"}) => (fs' = fs /\ log' = log /\ dirCreated' = dirCreated)]_vars

\* a project home with services.json alone: the classification error, nothing done
C25_Witness ==
    /\ ClassificationError /\ HomeHas("services.json") /\ HomeHas("main.py")
    /\ ~dirCreated /\ log = <<>>

\* the manifest of the project type lacks a field the chart needs
ManifestLacksField ==
    IF project_type = "python"
    THEN \/ ~HasKey("pyproject.toml", "project.name")
         \/ ~HasKey("pyproject.toml", "project.version")
    ELSE ~HasKey("package.json", "name")

MissingFieldErrors ==
    {"Missing 'project.name' in pyproject.toml", "Missing 'project.version' in pyproject.toml",
     "Missing 'name' in package.json"}

\* the build, the push when asked for and the five snapshot steps when asked
\* for have all returned zero
ImageStepsDone ==
    \A cmd \in {"build", "push"} \cup SnapshotSteps : Applicable(cmd) => Succeeded(cmd)

NoChartYet ==
    /\ ~WasInvoked("lint") /\ ~WasInvoked("package")
    /\ service_name = NONE
    /\ \A p \in DOMAIN fs : IsPrefix(temp_dir, p) => p[Len(p)] # "Chart.yaml"

\* C26: a run whose manifest lacks project.version or the name never gets to
\* the chart steps, and when it ends in the error about the missing field the
\* build, the push if requested and the snapshot steps if requested have all
\* been executed, and no chart file is rendered and neither helm lint nor helm
\* package invoked.
C26_ManifestReadAfterImage ==
    /\ (project_type # NONE /\ ManifestLacksField) =>
          pc \notin {"charts", "lint", "package", "done"} /\ NoChartYet
    /\ (pc = "error" /\ err \in MissingFieldErrors) =>
          ManifestLacksField /\ ImageStepsDone /\ NoChartYet

\* pyproject.toml without project.version, every parameter given, push and
\* snapshot asked for: seven commands ran before the error
C26_Witness ==
    /\ pc = "error" /\ err = "Missing 'project.version' in pyproject.toml"
    /\ args.push /\ args.make_tar_gz /\ LastInvoked("rm", 0) /\ Len(log) = 7
    /\ args.name = "app" /\ args.entrypoint = "run.py"

\* the paths of a rendered chart under its directory
ChartPaths(dir) ==
    {dir, Join(dir, "templates")} \cup {dir \o CHART_FILES[i].path : i \in DOMAIN CHART_FILES}

\* C27 as stated: once the chart is rendered its directory <workspace>/<manifest
\* name> is none of the staged project directory, <workspace>/wrapper and
\* <workspace>/scripts, and holds the rendered chart files and nothing else.
C27_ChartDirApart ==
    pc \in {"lint", "package", "done"} =>
        /\ Join(temp_dir, service_name)
              \notin {Join(temp_dir, HomeName), Join(temp_dir, "wrapper"), Join(temp_dir, "scripts")}
        /\ DOMAIN Below(fs, Join(temp_dir, service_name)) = ChartPaths(Join(temp_dir, service_name))

\* the workspace lies inside the project home
WorkspaceInsideHome == IsPrefix(args.project_home, temp_dir)

\* C28 as stated: the recursive copy of a finite project tree is over after
\* finitely many entries, whether or not the workspace lies inside the project
\* home: it copies no more entries, and is nested no deeper, than the tree had
\* entries when the copy began.
C28_StagingTerminates ==
    /\ out.copied <= out.entries
    /\ Len(input) <= out.entries

SameName == input[1].name = input[2].name

\* run r has created its workspace and not ended
HasWorkspace(r) == pc[r] \notin {"mktemp", "create", "error", "done"}

\* C29: two runs alive at once have two workspace paths also when their project
\* names are the same, their process ids being different; the removal a run
\* makes at its start takes away nothing but what was at or below its own
\* workspace path, and leaves the workspace of the other run as it is.
C29_SiblingWorkspaceKept ==
    /\ [](WorkspaceOf(1) # WorkspaceOf(2))
    /\ [][\A r \in Runs :
            (pc[r] = "mktemp" /\ pc'[r] # "mktemp") =>
                /\ \A p \in DOMAIN fs \ DOMAIN fs' : IsPrefix(WorkspaceOf(r), p)
                /\ HasWorkspace(Other(r)) =>
                      /\ IsDir(fs', temp_dir[Other(r)])
                      /\ Below(fs', temp_dir[Other(r)]) = Below(fs, temp_dir[Other(r)])]_vars

\* two runs of the same project name: the second has removed the directory left
\* under its workspace's name while the first one has its workspace staged
C29_Witness ==
    /\ SameName /\ pc[1] = "dockerfile" /\ pc[2] = "create"
    /\ IsFile(fs, temp_dir[1] \o <<"scripts", "zipper.sh">>)
    /\ ~Exists(fs, WorkspaceOf(2))
    /\ Exists(fs, Join(Cwd, WorkspaceName(input[1].name, input[1].pid)))

\* the regular files below a root, by their path relative to it
FilesBelow(root) ==
    {SubSeq(p, Len(root) + 1, Len(p)) : p \in {q \in DOMAIN fs : IsPrefix(root, q) /\ IsFile(fs, q)}}

\* the relative paths without a component named .venv or node_modules
Unexcluded(paths) ==
    {rel \in paths : \A i \in DOMAIN rel : rel[i] \notin {".venv", "node_modules"}}

\* C30 as stated: when staging is done the regular files of the staged copy are
\* the regular files of the project tree without those that have a component
\* named .venv or node_modules, at the same relative paths, with the same
\* contents, and there is no other file in the staged copy.
C30_StagedExactly ==
    pc \in {"dockerfile", "copied"} =>
        /\ FilesBelow(StagedRoot) = Unexcluded(FilesBelow(args.project_home))
        /\ \A rel \in FilesBelow(StagedRoot) :
              fs[StagedRoot \o rel].content = fs[args.project_home \o rel].content

====
